---- MODULE Spec2Model ----
(***************************************************************************)
(* A model of the equity order matching engine of CharKeaney/orderbook:    *)
(* Order, OrderMinMaxHeap, OrderEntry and OrderBook of OrderBook.h and     *)
(* interpret_order of the interpreter, as found in src/unnamed/part_000.   *)
(*                                                                         *)
(* Conventions of the model                                                *)
(*  - price_t (float) is an integer number of cents; the conversion of a   *)
(*    price to quantity_t truncates to whole units (cents \div 100).       *)
(*  - a C array indexed from 0 is a function whose domain holds only the   *)
(*    slots that differ from what the constructor wrote; Slot() reads it.  *)
(*  - a pointer into data[] is the index of the slot, NULL is -1.          *)
(*  - a symbol is the tuple of its ASCII codes.                            *)
(*  - an access outside an array, or through a NULL pointer, is undefined  *)
(*    behaviour: the model records it (oob, fault) and the engine halts.   *)
(***************************************************************************)
EXTENDS Integers, Sequences, FiniteSets, TLC

VARIABLES table, timestamp, cache_order_to_symbol,
          cache_list_sorted_symbol_names, out, cmd, pc, todo, fault,
          accepted_max, rerun, cancelled, wide, side

vars == <<table, timestamp, cache_order_to_symbol,
          cache_list_sorted_symbol_names, out, cmd, pc, todo, fault,
          accepted_max, rerun, cancelled, wide, side>>

(* ---------------------------- program constants ------------------------ *)

MAX_NUM_ORDERS_IN_HEAP == 65536

NUM_TOTAL_SYMBOLS_IN_ORDER_BOOK == 65536

ACCEPT == 0

INVALID_AMMENDMENT_DETAILS == 101

INVALID_ORDER_DETAILS == 303

ORDER_DOES_NOT_EXIST == 404

(* the number of orders of a side OrderEntry::query asks for *)
TOP_N == 5

(* time_t t = -1 stands for "now" in every accessor of Order *)
NOW == -1

(* ------------------------------- bounds -------------------------------- *)

(* number of New commands admitted in a run of Spec *)
MaxOrders == 2

(* number of New commands admitted in a run of SpecBook *)
MaxBookOrders == 3

(* number of New commands admitted in a run of SpecDir *)
MaxDirOrders == 2

(* largest timestamp a command carries *)
MaxTime == 1

(* number of New commands admitted in a run of SpecSide *)
MaxSideOrders == 4

(* largest timestamp a command carries in a run of SpecClock *)
MaxClock == 2

(* number of New commands admitted in a run of SpecClock *)
MaxClockOrders == 1

(* number of New commands admitted in a run of SpecWatch *)
MaxWatchOrders == 2

(* number of New commands admitted in a run of SpecPenny *)
MaxPennyOrders == 2

(* length of an order history beyond which SpecPenny follows the match     *)
(* loop no further                                                         *)
MaxPennyHistory == 4

(* number of New commands admitted in a run of SpecQuery *)
MaxQueryOrders == 2

(* largest timestamp a command carries in a run of SpecQuery *)
MaxQueryTime == 1

(* number of New commands admitted in a run of SpecAsOf *)
MaxAsOfOrders == 2

(* largest timestamp a command carries in a run of SpecAsOf *)
MaxAsOfTime == 2

(* number of New commands admitted in a run of SpecHeap *)
MaxHeapOrders == 5

(* number of New commands admitted in a run of SpecTop *)
MaxTopOrders == 6

(* number of New commands admitted in a run of SpecNames *)
MaxNameOrders == 4

(* number of New commands admitted in a run of SpecIds *)
MaxIdOrders == 2

(* number of New commands admitted in a run of SpecTypes *)
MaxTypeOrders == 2

(* number of free slots of the emptiest heap of SpecFull *)
MaxFullRoom == 3

(* largest low digit of the quantities and amounts of SpecWide *)
MaxWideDigit == 2

(* number of fills an order of SpecWide takes *)
MaxWideFills == 2

(* ------------------------------ helpers -------------------------------- *)

Max(S) == CHOOSE x \in S : \A y \in S : y <= x

(* read of a C array kept as a sparse function *)
Slot(arr, i, dflt) == IF i \in DOMAIN arr THEN arr[i] ELSE dflt

(* write of a C array kept as a sparse function *)
Store(arr, i, v, dflt) ==
    IF v = dflt
    THEN [j \in (DOMAIN arr) \ {i} |-> arr[j]]
    ELSE [j \in (DOMAIN arr) \cup {i} |-> IF j = i THEN v ELSE arr[j]]

(* ------------------------------- Order --------------------------------- *)

Order(oid, ot, t, p, q) ==
    [order_id |-> oid, order_type |-> ot,
     history |-> << [history |-> "NOT_EXECUTED", timestamp |-> t,
                     price |-> p, quantity_remaining |-> q] >>]

DefaultOrder == Order(0, "MARKET", 0, 0, 0)

(* the walk of get_history_entry with eht->timestamp < t for its test *)
history_index_strict(o, t) ==
    LET n == Len(o.history)
        pre == {i \in 1..n : \A j \in 1..i : o.history[j].timestamp < t}
    IN  IF t = NOW THEN n
        ELSE IF pre = {} THEN 1
        ELSE Max(pre)

(* index, in the history list, of the entry get_history_entry returns *)
history_index(o, t) ==
    LET n == Len(o.history)
        pre == {i \in 1..n : \A j \in 1..i : o.history[j].timestamp <= t}
    IN  IF t = NOW THEN n
        ELSE IF pre = {} THEN 1
        ELSE Max(pre)

get_history_entry(o, t) == o.history[history_index(o, t)]

active_at(o, t) ==
    LET status == get_history_entry(o, t).history
    IN  /\ (t = NOW \/ o.history[1].timestamp <= t)
        /\ status # "EXECUTED"
        /\ status # "CANCELLED"

get_status(o, t) == get_history_entry(o, t).history

get_price(o, t) == get_history_entry(o, t).price

get_quantity(o, t) == get_history_entry(o, t).quantity_remaining

get_timestamp(o, t) == get_history_entry(o, t).timestamp

add_execution_history_entry(o, status, t, price, q) ==
    LET new_entry == [history |-> status, timestamp |-> t,
                      price |-> price, quantity_remaining |-> q]
        history_entry == get_history_entry(o, NOW)
    IN  IF history_entry.timestamp > t
        THEN o
        ELSE [o EXCEPT !.history = Append(@, new_entry)]

(* a transaction that records every fill as a partial one *)
order_transact_partial(o, t, p, q) ==
    add_execution_history_entry(o, "PARTIALLY_EXECUTED", t, p, q)

order_transact(o, t, p, q) ==
    LET status == IF q = 0 THEN "EXECUTED" ELSE "PARTIALLY_EXECUTED"
    IN  add_execution_history_entry(o, status, t, p, q)

(* an amendment that stamps its record one tick after the record before *)
order_ammend_restamped(o, p, q) ==
    LET history_entry == get_history_entry(o, NOW)
    IN  add_execution_history_entry(o, history_entry.history,
                                    history_entry.timestamp + 1, p, q)

order_ammend(o, p, q) ==
    LET history_entry == get_history_entry(o, NOW)
    IN  add_execution_history_entry(o, history_entry.history,
                                    history_entry.timestamp, p, q)

(* --------------------------- OrderMinMaxHeap --------------------------- *)

(* the heap as its constructor leaves it.  data lists the slots of data[]  *)
(* that differ from rest, the order in every other slot: the constructor   *)
(* fills data[] with Order().  oob records an access outside data[] or     *)
(* allocated[], which is undefined behaviour                               *)
OrderMinMaxHeap(type) ==
    [data |-> <<>>, rest |-> DefaultOrder, active_ptr |-> 0,
     matched_ptr |-> 0, allocated |-> {}, heap_type |-> type, oob |-> FALSE]

(* data[i] *)
Data(h, i) == Slot(h.data, i, h.rest)

swap(h, a, b) ==
    LET x == Data(h, a)
        y == Data(h, b)
    IN  [h EXCEPT !.data = Store(Store(@, a, y, h.rest), b, x, h.rest)]

(* a precedence that lets a market order pass every order of another type *)
has_precedence_by_type(a, b, t) ==
    \/ get_price(a, t) < get_price(b, t)
    \/ a.order_type = "MARKET" /\ b.order_type # "MARKET"

(* has_precedence(const Order&, const Order&, t): the function returns on  *)
(* its first statement; the comparison by heap type and timestamp that     *)
(* follows it is never executed                                            *)
has_precedence(a, b, t) == get_price(a, t) < get_price(b, t)

(* has_precedence(const int&, const int&, t) *)
has_precedence_at(h, a, b, t) == has_precedence(Data(h, a), Data(h, b), t)

(* a << 1 + 1 parses as a << (1 + 1) *)
has_children(h, a) == (2 * a) \in h.allocated \/ (4 * a) \in h.allocated

(* the result is a price truncated to int, which the callers use as index *)
smallest_descendant(h, a) ==
    LET p    == get_price(Data(h, 2 * a), NOW)
        min1 == IF (2 * a) \in h.allocated THEN p \div 100 ELSE -1
    IN  IF (4 * a) \in h.allocated /\ (min1 = -1 \/ p < min1 * 100)
        THEN p \div 100
        ELSE min1

get_parent(m) == 2 * m

(* the loop doubles i while i > b: it runs at all exactly when a > b *)
is_grandchild_of(a, b) == a > b

RECURSIVE push_down_min_loop(_, _, _, _)
push_down_min_loop(h, m, i, mi) ==
    IF ~has_children(h, mi) THEN h
    ELSE IF has_precedence_at(h, mi, i, NOW)
    THEN LET h1 == IF is_grandchild_of(mi, i)
                   THEN LET h2 == swap(h, mi, i)
                        IN  IF has_precedence_at(h2, m, get_parent(m), NOW)
                            THEN swap(h2, m, get_parent(m))
                            ELSE h2
                   ELSE swap(h, m, i)
         IN  push_down_min_loop(h1, m, mi, smallest_descendant(h1, mi))
    ELSE h

push_down_min(h, m) == push_down_min_loop(h, m, m, m)

RECURSIVE push_down_max_loop(_, _, _, _)
push_down_max_loop(h, m, i, mi) ==
    IF ~has_children(h, mi) THEN h
    ELSE IF ~has_precedence_at(h, mi, i, NOW)
    THEN LET h1 == IF is_grandchild_of(mi, i)
                   THEN LET h2 == swap(h, mi, i)
                        IN  IF ~has_precedence_at(h2, m, get_parent(m), NOW)
                            THEN swap(h2, m, get_parent(m))
                            ELSE h2
                   ELSE swap(h, m, i)
         IN  push_down_max_loop(h1, m, mi, smallest_descendant(h1, mi))
    ELSE h

push_down_max(h, m) == push_down_max_loop(h, m, m, m)

push_down(h, m) ==
    IF has_children(h, m) THEN push_down_min(h, m) ELSE push_down_max(h, m)

(* for (i = m; (i << 2) >= 0 && has_precedence(i, i << 2); i <<= 2):       *)
(* i << 2 stays non-negative for every index of the array, so the loop     *)
(* reads data[i << 2] past the end of data[] once i << 2 reaches the       *)
(* capacity                                                                *)
RECURSIVE push_up_min(_, _)
push_up_min(h, i) ==
    IF 4 * i >= MAX_NUM_ORDERS_IN_HEAP THEN [h EXCEPT !.oob = TRUE]
    ELSE IF 4 * i >= 0 /\ has_precedence_at(h, i, 4 * i, NOW)
    THEN push_up_min(swap(h, i, 4 * i), 4 * i)
    ELSE h

(* called with mi # 0 only *)
RECURSIVE push_up_max(_, _)
push_up_max(h, mi) ==
    IF 4 * mi >= MAX_NUM_ORDERS_IN_HEAP THEN [h EXCEPT !.oob = TRUE]
    ELSE IF 4 * mi >= 0 /\ ~has_precedence_at(h, mi, 4 * mi, NOW)
    THEN push_up_max(swap(h, mi, 4 * mi), 4 * mi)
    ELSE h

push_up(h, i) ==
    IF i = 0 THEN h
    ELSE IF ~has_children(h, i)
    THEN IF has_precedence_at(h, i, get_parent(i), NOW)
         THEN push_up_max(swap(h, i, get_parent(i)), get_parent(i))
         ELSE push_up_min(h, i)
    ELSE IF has_precedence_at(h, i, get_parent(i), NOW)
         THEN push_up_min(swap(h, i, get_parent(i)), get_parent(i))
         ELSE push_up_max(h, i)

(* index of the first allocated slot below matched_ptr holding id, or -1 *)
search(h, id) ==
    LET found == {d \in 0..(h.matched_ptr - 1) :
                    d \in h.allocated /\ Data(h, d).order_id = id}
    IN  IF found = {} THEN -1
        ELSE CHOOSE d \in found : \A e \in found : d <= e

make_inactive(h, i) ==
    LET last == h.active_ptr - 1
        h1   == swap(h, i, last)
        h2   == [h1 EXCEPT !.allocated = @ \ {last}, !.active_ptr = last]
    IN  push_down(h2, 0)

(* insert tests neither cursor against the capacity: with matched_ptr at   *)
(* the end of data[] its first statement, the swap, reads and writes       *)
(* data[MAX_NUM_ORDERS_IN_HEAP], past the array                            *)
heap_insert(h, datum) ==
    LET a  == h.active_ptr
        h1 == swap(h, a, h.matched_ptr)
        h2 == [h1 EXCEPT !.data = Store(@, a, datum, h.rest),
                         !.allocated = @ \cup {a}]
        h3 == push_up(h2, a)
    IN  IF h.matched_ptr >= MAX_NUM_ORDERS_IN_HEAP
        THEN [h EXCEPT !.oob = TRUE]
        ELSE [h3 EXCEPT !.active_ptr = @ + 1, !.matched_ptr = @ + 1]

(* OrderMinMaxHeap::ammend: the entry is appended by Order::ammend and     *)
(* then once more by add_execution_history_entry                           *)
heap_ammend(h, id, new_price, new_quantity) ==
    LET i == search(h, id)
    IN  IF i # -1
        THEN LET o1 == order_ammend(Data(h, i), new_price, new_quantity)
                 o2 == add_execution_history_entry(
                           o1, get_history_entry(o1, NOW).history,
                           get_timestamp(o1, NOW), new_price, new_quantity)
                 h1 == [h EXCEPT !.data = Store(@, i, o2, h.rest)]
             IN  push_down(h1, 0)
        ELSE h

heap_cancel(h, id) ==
    LET i == search(h, id)
    IN  IF i # -1
        THEN LET o  == Data(h, i)
                 o1 == add_execution_history_entry(
                           o, "CANCELLED", get_timestamp(o, NOW),
                           get_price(o, NOW), get_quantity(o, NOW))
                 h1 == [h EXCEPT !.data = Store(@, i, o1, h.rest)]
             IN  push_down(make_inactive(h1, i), 0)
        ELSE h

(* the slot get_max_order points to, -1 for NULL; the condition of the     *)
(* first else-if parses as  !a[1] || (hp(0,1) && (!a[2] || hp(0,2)))       *)
get_max_order(h) ==
    IF 0 \notin h.allocated THEN -1
    ELSE IF \/ 1 \notin h.allocated
            \/ /\ has_precedence_at(h, 0, 1, NOW)
               /\ (2 \notin h.allocated \/ has_precedence_at(h, 0, 2, NOW))
    THEN 0
    ELSE IF 2 \notin h.allocated \/ has_precedence_at(h, 1, 2, NOW)
    THEN 1
    ELSE 2

(* the stack of get_max_n_orders with the order d placed: d goes before    *)
(* the first order it has precedence over, or at the end                   *)
stack_insert(stack, d, t) ==
    LET before == {k \in 1..Len(stack) : has_precedence(d, stack[k], t)}
        k == IF before = {} THEN Len(stack) + 1
             ELSE CHOOSE x \in before : \A y \in before : x <= y
    IN  SubSeq(stack, 1, k - 1) \o <<d>> \o SubSeq(stack, k, Len(stack))

(* the loop of get_max_n_orders from slot d on, n >= 1; stack holds the    *)
(* stack_i orders placed so far.  With the stack full, an order that the   *)
(* last has precedence over makes the inner loop read stack[n] or write    *)
(* t_stack[n], outside the arrays (oob); any other order leaves t_stack    *)
(* as it was allocated, n orders Order(), and stack is overwritten with it *)
RECURSIVE max_n_scan(_, _, _, _, _)
max_n_scan(h, t, n, d, stack) ==
    IF d >= h.matched_ptr THEN [orders |-> stack, oob |-> FALSE]
    ELSE IF ~active_at(Data(h, d), t) THEN max_n_scan(h, t, n, d + 1, stack)
    ELSE IF Len(stack) < n
    THEN max_n_scan(h, t, n, d + 1, stack_insert(stack, Data(h, d), t))
    ELSE IF has_precedence(stack[n], Data(h, d), t)
    THEN [orders |-> stack, oob |-> TRUE]
    ELSE max_n_scan(h, t, n, d + 1, [i \in 1..n |-> DefaultOrder])

(* the orders get_max_n_orders writes to output, in order; their number is *)
(* what it returns                                                         *)
get_max_n_orders(h, t, n) == max_n_scan(h, t, n, 0, <<>>)

(* int abs_diff = get_quantity(t) - amount: the unsigned difference cut to *)
(* a signed int is the plain difference for operands below 2^31            *)
abs_diff(q, amount) == q - amount

heap_transact(h, local_id, amount, t) ==
    LET local_i == search(h, local_id)
        local   == Data(h, local_i)
    IN  IF local_i = -1 THEN [h EXCEPT !.oob = TRUE]
        ELSE IF abs_diff(get_quantity(local, t), amount) <= 0
        THEN LET o1 == order_transact(local, t, get_price(local, t), 0)
                 h1 == [h EXCEPT !.data = Store(@, local_i, o1, h.rest)]
             IN  make_inactive(h1, local_i)
        ELSE LET o1 == order_transact(local, t, get_price(local, t),
                                      get_quantity(local, t) - amount)
             IN  [h EXCEPT !.data = Store(@, local_i, o1, h.rest)]

(* --------------------------- quantities of 64 bits --------------------- *)

(* A quantity_t, an unsigned integer of 64 bits, is kept as its four       *)
(* digits of 16 bits, the least significant first.                         *)
Quantity(d1, d2, d3, d4) == <<d1, d2, d3, d4>>

(* x - y of two quantity_t: the difference modulo 2^64 *)
quantity_sub(x, y) ==
    LET s1 == x[1] - y[1]
        b1 == IF s1 < 0 THEN 1 ELSE 0
        s2 == x[2] - y[2] - b1
        b2 == IF s2 < 0 THEN 1 ELSE 0
        s3 == x[3] - y[3] - b2
        b3 == IF s3 < 0 THEN 1 ELSE 0
        s4 == x[4] - y[4] - b3
        b4 == IF s4 < 0 THEN 1 ELSE 0
    IN  Quantity(s1 + 65536 * b1, s2 + 65536 * b2,
                 s3 + 65536 * b3, s4 + 65536 * b4)

(* int abs_diff = <quantity_t>: the conversion keeps the low 32 bits as a  *)
(* two's complement number                                                 *)
quantity_as_int(x) ==
    IF x[2] >= 32768 THEN (x[2] - 65536) * 65536 + x[1]
    ELSE x[2] * 65536 + x[1]

(* the order of OrderMinMaxHeap::transact as far as the transaction reads  *)
(* and writes it: its latest status and remaining quantity, whether it is  *)
(* in the active region, the fills it has taken and the amount of the last *)
WideOrder(q) ==
    [history |-> "NOT_EXECUTED", quantity_remaining |-> q, active |-> TRUE,
     fills |-> 0, amount |-> Quantity(0, 0, 0, 0)]

(* OrderMinMaxHeap::transact with Order::transact and make_inactive, on    *)
(* quantities of the full width of quantity_t                              *)
wide_transact(o, amount) ==
    LET q == o.quantity_remaining
        r == quantity_sub(q, amount)
    IN  IF quantity_as_int(r) <= 0
        THEN [o EXCEPT !.history = "EXECUTED",
                       !.quantity_remaining = Quantity(0, 0, 0, 0),
                       !.active = FALSE,
                       !.fills = @ + 1, !.amount = amount]
        ELSE [o EXCEPT !.history = IF r = Quantity(0, 0, 0, 0)
                                   THEN "EXECUTED"
                                   ELSE "PARTIALLY_EXECUTED",
                       !.quantity_remaining = r,
                       !.fills = @ + 1, !.amount = amount]

(* ------------------------------ OrderEntry ----------------------------- *)

(* next_entry is NULL from the constructor on and never assigned *)
OrderEntry(s) ==
    [symbol |-> s, buys |-> OrderMinMaxHeap("BUY_HEAP"),
     sells |-> OrderMinMaxHeap("SELL_HEAP")]

entry_add(e, o, s) ==
    IF s = "BUY" THEN [e EXCEPT !.buys = heap_insert(@, o)]
    ELSE [e EXCEPT !.sells = heap_insert(@, o)]

(* the status of the heap is dropped: OrderEntry::ammend returns true *)
entry_ammend(e, s, oid, p, q) ==
    IF s = "BUY" THEN [e EXCEPT !.buys = heap_ammend(@, oid, p, q)]
    ELSE [e EXCEPT !.sells = heap_ammend(@, oid, p, q)]

(* the status of the heap is dropped: OrderEntry::cancel returns ACCEPT *)
entry_cancel(e, oid, s) ==
    IF s = "BUY" THEN [e EXCEPT !.buys = heap_cancel(@, oid)]
    ELSE [e EXCEPT !.sells = heap_cancel(@, oid)]

(* the line OrderEntry::match prints for a cross *)
TradeEvent(e, b, s) ==
    [kind |-> "Trade", symbol |-> e.symbol,
     b_oi |-> b.order_id, b_t |-> b.order_type,
     b_quantity |-> get_quantity(b, NOW), b_price |-> get_price(b, NOW),
     s_price |-> get_price(s, NOW), s_quantity |-> get_quantity(s, NOW),
     s_t |-> s.order_type, s_oi |-> s.order_id]

(* transact(b_oi, b_price, t): the float price is passed where the amount, *)
(* a quantity_t, is expected and is truncated to a whole number            *)
price_as_quantity(p) == p \div 100

(* one pass of the while (true) loop of OrderEntry::match: done is TRUE    *)
(* when the pass leaves the loop, otherwise trade is the line printed      *)
entry_match_pass(e, t) ==
    LET bi == get_max_order(e.buys)
        si == get_max_order(e.sells)
        best_buy  == Data(e.buys, bi)
        best_sell == Data(e.sells, si)
        b_price == get_price(best_buy, NOW)
        s_price == get_price(best_sell, NOW)
    IN  IF bi = -1 \/ si = -1
        THEN [e |-> e, done |-> TRUE, trade |-> <<>>]
        ELSE IF /\ get_history_entry(best_buy, NOW).history # "EXECUTED"
                /\ get_history_entry(best_sell, NOW).history # "EXECUTED"
                /\ b_price >= s_price
        THEN [e |-> [e EXCEPT
                       !.buys = heap_transact(@, best_buy.order_id,
                                    price_as_quantity(b_price), t),
                       !.sells = heap_transact(@, best_sell.order_id,
                                    price_as_quantity(b_price), t)],
              done |-> FALSE,
              trade |-> << TradeEvent(e, best_buy, best_sell) >>]
        ELSE [e |-> e, done |-> TRUE, trade |-> <<>>]

(* the sub-record of an order in a line of OrderEntry::query *)
SubRecord(o, t) ==
    [oi |-> o.order_id, order_type |-> o.order_type,
     quantity |-> get_quantity(o, t), price |-> get_price(o, t)]

(* OrderEntry::query: the lines printed, and whether get_max_n_orders left *)
(* its arrays                                                              *)
entry_query(e, t) ==
    LET top_buys  == get_max_n_orders(e.buys, t, TOP_N)
        min_sells == get_max_n_orders(e.sells, t, TOP_N)
        num_buys  == Len(top_buys.orders)
        num_sells == Len(min_sells.orders)
        num_to_display == IF num_buys > num_sells THEN num_buys ELSE num_sells
    IN  [rows |-> [i \in 1..num_to_display |->
                     [kind |-> "Row", symbol |-> e.symbol,
                      buy  |-> IF i <= num_buys
                               THEN << SubRecord(top_buys.orders[i], t) >>
                               ELSE <<>>,
                      sell |-> IF i <= num_sells
                               THEN << SubRecord(min_sells.orders[i], t) >>
                               ELSE <<>>]],
         oob |-> top_buys.oob \/ min_sells.oob]

(* ------------------------------ OrderBook ------------------------------ *)

(* hash(unsigned int): 1279 * x + 2203 is computed modulo 2^32 and then    *)
(* reduced modulo 2^16, so only x modulo 2^16 matters                      *)
hash_int(x) ==
    (1279 * (x % NUM_TOTAL_SYMBOLS_IN_ORDER_BOOK) + 2203)
        % NUM_TOTAL_SYMBOLS_IN_ORDER_BOOK

(* int_repr of hash(char* ), kept modulo 2^16 (see hash_int); 'a' is 97 *)
RECURSIVE int_repr(_, _)
int_repr(x, acc) ==
    IF x = <<>> THEN acc
    ELSE int_repr(Tail(x),
                  (acc * 26 + (Head(x) - 97)) % NUM_TOTAL_SYMBOLS_IN_ORDER_BOOK)

hash_str(x) == hash_int(int_repr(x, 0))

(* strcmp of two symbols: negative, 0 or positive *)
RECURSIVE strcmp(_, _)
strcmp(a, b) ==
    IF a = <<>> /\ b = <<>> THEN 0
    ELSE IF a = <<>> THEN -1
    ELSE IF b = <<>> THEN 1
    ELSE IF Head(a) # Head(b) THEN Head(a) - Head(b)
    ELSE strcmp(Tail(a), Tail(b))

(* the walk of OrderBook::insert over the sorted name list: the position   *)
(* of the node after which the new name is linked                          *)
RECURSIVE snl_walk(_, _, _)
snl_walk(list, key, k) ==
    IF k < Len(list) /\ strcmp(list[k], key) < 0
    THEN snl_walk(list, key, k + 1)
    ELSE k

snl_insert(list, key) ==
    IF list = <<>> THEN <<key>>
    ELSE IF strcmp(list[1], key) >= 0 THEN <<key>> \o list
    ELSE LET k == snl_walk(list, key, 1)
         IN  SubSeq(list, 1, k) \o <<key>> \o SubSeq(list, k + 1, Len(list))

(* OrderBook::lookup: the bucket of the entry found, -1 for NULL.  The     *)
(* loop of lookup compares symbols only while get_next_entry() is not      *)
(* NULL, which it always is: the head of the bucket is returned unseen     *)
lookup(ob, key) ==
    IF hash_str(key) \in DOMAIN ob.table THEN hash_str(key) ELSE -1

book_insert(ob, key) ==
    [ob EXCEPT
       !.table = (hash_str(key) :> OrderEntry(key)) @@ @,
       !.cache_list_sorted_symbol_names = snl_insert(@, key)]

(* the comparison of the timestamps, late by one *)
too_old_by_two(ob, o) == o.timestamp + 1 < ob.timestamp

(* the commands compare their timestamp with that of the book *)
too_old(ob, o) == o.timestamp < ob.timestamp

(* the else branch of add_new_order: the order is entered *)
admit_order(ob, o) ==
    LET ob1 == IF lookup(ob, o.symbol) = -1
               THEN book_insert(ob, o.symbol)
               ELSE ob
        oe == lookup(ob1, o.symbol)
        datum == Order(o.order_id, o.order_type, o.timestamp,
                       o.price, o.quantity)
        h == hash_int(o.order_id)
        ob2 == [ob1 EXCEPT
                  !.cache_order_to_symbol =
                      Store(@, h,
                            Append(Slot(@, h, <<>>),
                                   [oi |-> o.order_id, symbol |-> o.symbol]),
                            <<>>)]
    IN  [ob |-> [ob2 EXCEPT
                   !.table[oe] = entry_add(@, datum, o.side),
                   !.timestamp = o.timestamp],
         status |-> ACCEPT]

(* add_new_order without its test of the timestamp *)
add_new_order_unchecked(ob, o) == admit_order(ob, o)

add_new_order(ob, o) ==
    IF too_old(ob, o)
    THEN [ob |-> ob, status |-> INVALID_ORDER_DETAILS]
    ELSE admit_order(ob, o)

(* status = oe->ammend(...) is the bool true, that is 1; the timestamp of  *)
(* the book is not assigned on any path                                    *)
ammend_order(ob, o) ==
    LET oe == lookup(ob, o.symbol)
    IN  IF too_old(ob, o)
        THEN [ob |-> ob, status |-> INVALID_ORDER_DETAILS]
        ELSE IF oe # -1
        THEN [ob |-> [ob EXCEPT !.table[oe] =
                         entry_ammend(@, o.side, o.order_id,
                                      o.price, o.quantity)],
              status |-> 1]
        ELSE [ob |-> ob, status |-> ORDER_DOES_NOT_EXIST]

(* cache_order_to_symbol[h]->symbol for the bucket h of an order id: the   *)
(* symbol of the first node of the bucket, whatever its id; <<>> stands    *)
(* for the read through NULL of an empty bucket                            *)
symbol_of(ob, oi) ==
    IF hash_int(oi) \in DOMAIN ob.cache_order_to_symbol
    THEN ob.cache_order_to_symbol[hash_int(oi)][1].symbol
    ELSE <<>>

(* cancel_order reads cache_order_to_symbol[h]->symbol, the symbol of the  *)
(* head of the bucket: null is TRUE when the bucket is empty and the read  *)
(* goes through a NULL pointer                                             *)
cancel_order(ob, o) ==
    IF too_old(ob, o)
    THEN [ob |-> ob, status |-> INVALID_ORDER_DETAILS, null |-> FALSE]
    ELSE LET h == hash_int(o.order_id)
         IN  IF h \notin DOMAIN ob.cache_order_to_symbol
             THEN [ob |-> ob, status |-> ACCEPT, null |-> TRUE]
             ELSE LET s  == symbol_of(ob, o.order_id)
                      oe == lookup(ob, s)
                  IN  IF oe # -1
                      THEN [ob |-> [ob EXCEPT
                                      !.table[oe] =
                                          entry_cancel(@, o.order_id, o.side),
                                      !.timestamp = o.timestamp],
                            status |-> ACCEPT, null |-> FALSE]
                      ELSE [ob |-> [ob EXCEPT !.timestamp = o.timestamp],
                            status |-> ORDER_DOES_NOT_EXIST, null |-> FALSE]

(* the entries OrderBook::match visits, as the sequence of their buckets:  *)
(* the whole table in bucket order, or the one entry lookup returns        *)
RECURSIVE buckets_in_order(_)
buckets_in_order(S) ==
    IF S = {} THEN <<>>
    ELSE LET b == CHOOSE x \in S : \A y \in S : x <= y
         IN  <<b>> \o buckets_in_order(S \ {b})

match_entries(ob, o) ==
    IF o.format = "F_MATCH_TIMESTAMP" THEN buckets_in_order(DOMAIN ob.table)
    ELSE IF o.format = "F_MATCH_TIMESTAMP_SYMBOL" THEN <<lookup(ob, o.symbol)>>
    ELSE <<>>

(* the entries OrderBook::query visits, as the sequence of their buckets:   *)
(* what lookup returns for every name of the sorted list, or for the       *)
(* symbol of the command                                                   *)
query_entries(ob, o) ==
    IF o.format \in {"F_QUERY", "F_QUERY_TIMESTAMP"}
    THEN [k \in 1..Len(ob.cache_list_sorted_symbol_names) |->
             lookup(ob, ob.cache_list_sorted_symbol_names[k])]
    ELSE IF o.format \in {"F_QUERY_SYMBOL", "F_QUERY_SYMBOL_TIMESTAMP",
                          "F_QUERY_TIMESTAMP_SYMBOL"}
    THEN <<lookup(ob, o.symbol)>>
    ELSE <<>>

(* the time OrderBook::query passes to OrderEntry::query *)
query_time(o) ==
    IF o.format \in {"F_QUERY", "F_QUERY_SYMBOL"} THEN NOW ELSE o.timestamp

(* OrderBook::query over the entries es: the lines printed until the       *)
(* entries are done or an entry is NULL or its query leaves an array, in   *)
(* which case stopped is TRUE                                              *)
RECURSIVE book_query(_, _, _)
book_query(ob, es, t) ==
    IF es = <<>> THEN [rows |-> <<>>, stopped |-> FALSE]
    ELSE IF Head(es) = -1 THEN [rows |-> <<>>, stopped |-> TRUE]
    ELSE LET q == entry_query(ob.table[Head(es)], t)
             r == book_query(ob, Tail(es), t)
         IN  IF q.oob THEN [rows |-> <<>>, stopped |-> TRUE]
             ELSE [rows |-> q.rows \o r.rows, stopped |-> r.stopped]

(* ---------------------------- interpret_order -------------------------- *)

(* what interpret_order prints for the status a command returned *)
interpret_status(o, status) ==
    IF o.order_action = "NEW"
    THEN IF status = ACCEPT
         THEN << [kind |-> "Accept", id |-> o.order_id, code |-> 0] >>
         ELSE IF status = INVALID_ORDER_DETAILS
         THEN << [kind |-> "Reject", id |-> o.order_id,
                  code |-> INVALID_ORDER_DETAILS] >>
         ELSE <<>>
    ELSE IF o.order_action = "AMEND"
    THEN IF status = ACCEPT
         THEN << [kind |-> "AmmendAccept", id |-> o.order_id, code |-> 0] >>
         ELSE IF status = INVALID_AMMENDMENT_DETAILS
         THEN << [kind |-> "AmmendReject", id |-> o.order_id,
                  code |-> INVALID_AMMENDMENT_DETAILS] >>
         ELSE IF status = ORDER_DOES_NOT_EXIST
         THEN << [kind |-> "AmmendReject", id |-> o.order_id,
                  code |-> ORDER_DOES_NOT_EXIST] >>
         ELSE <<>>
    ELSE IF o.order_action = "CANCEL"
    THEN IF status = ACCEPT
         THEN << [kind |-> "CancelAccept", id |-> o.order_id, code |-> 0] >>
         ELSE IF status = ORDER_DOES_NOT_EXIST
         THEN << [kind |-> "CancelReject", id |-> o.order_id,
                  code |-> ORDER_DOES_NOT_EXIST] >>
         ELSE <<>>
    ELSE <<>>

(* ------------------------------- commands ------------------------------ *)

(* the Command values match_command builds; format is assigned for Match   *)
(* and Query only                                                          *)
Command(ao, oi, t, s, si, ot, p, q, f) ==
    [format |-> f, order_action |-> ao, order_id |-> oi, timestamp |-> t,
     symbol |-> s, side |-> si, order_type |-> ot, price |-> p,
     quantity |-> q]

NewCommand(oi, t, s, ot, si, p, q) ==
    Command("NEW", oi, t, s, si, ot, p, q, "unset")

AmendCommand(oi, t, s, ot, si, p, q) ==
    Command("AMEND", oi, t, s, si, ot, p, q, "unset")

CancelCommand(oi, t) ==
    Command("CANCEL", oi, t, <<>>, "BUY", "LIMIT", 0, 0, "unset")

MatchCommand(t, s, f) ==
    Command("MATCH", 0, t, s, "BUY", "LIMIT", 0, 0, f)

QueryCommand(t, s, f) ==
    Command("QUERY", 0, t, s, "BUY", "LIMIT", 0, 0, f)

(* the temporary order of interpret_orders, before any command is read *)
NoCommand == Command("NEW", 0, 0, <<>>, "BUY", "LIMIT", 0, 0, "unset")

(* ------------------------------ the engine ----------------------------- *)

OB == [table |-> table, timestamp |-> timestamp,
       cache_order_to_symbol |-> cache_order_to_symbol,
       cache_list_sorted_symbol_names |-> cache_list_sorted_symbol_names]

SetOB(ob) ==
    /\ table' = ob.table
    /\ timestamp' = ob.timestamp
    /\ cache_order_to_symbol' = ob.cache_order_to_symbol
    /\ cache_list_sorted_symbol_names' = ob.cache_list_sorted_symbol_names

(* an access outside an array was made in some heap of the book *)
OutOfBounds(tbl) ==
    \E b \in DOMAIN tbl : tbl[b].buys.oob \/ tbl[b].sells.oob

(* undefined behaviour has occurred: the engine takes no further command *)
Halted == fault \/ OutOfBounds(table)

(* the order ids admitted so far *)
Admitted ==
    UNION { {cache_order_to_symbol[h][i].oi :
               i \in 1..Len(cache_order_to_symbol[h])} :
            h \in DOMAIN cache_order_to_symbol }

Larger(a, b) == IF a >= b THEN a ELSE b

(* OrderBook() *)
Init ==
    /\ table = <<>>
    /\ timestamp = 0
    /\ cache_order_to_symbol = <<>>
    /\ cache_list_sorted_symbol_names = <<>>
    /\ out = <<>>
    /\ cmd = NoCommand
    /\ pc = "idle"
    /\ todo = <<>>
    /\ fault = FALSE
    /\ accepted_max = 0
    /\ rerun = FALSE
    /\ cancelled = {}
    /\ wide = WideOrder(Quantity(0, 0, 0, 0))
    /\ side = OrderMinMaxHeap("BUY_HEAP")

(* interpret_order, case NEW.  When the insertion leaves data[], what is   *)
(* printed afterwards is not determined                                    *)
NewOrder(o) ==
    /\ pc = "idle" /\ ~Halted
    /\ LET r == add_new_order(OB, o)
       IN  /\ SetOB(r.ob)
           /\ out' \in IF OutOfBounds(r.ob.table)
                       THEN {<<>>, interpret_status(o, r.status)}
                       ELSE {interpret_status(o, r.status)}
           /\ accepted_max' = IF r.status = ACCEPT
                              THEN Larger(accepted_max, o.timestamp)
                              ELSE accepted_max
    /\ cmd' = o
    /\ UNCHANGED <<pc, todo, fault>>

(* the amendment reaches an order: the command is not too old, its symbol  *)
(* has an entry and the heap of its side holds the id                      *)
ammend_applies(ob, o) ==
    /\ ~too_old(ob, o)
    /\ lookup(ob, o.symbol) # -1
    /\ LET e == ob.table[lookup(ob, o.symbol)]
       IN  search(IF o.side = "BUY" THEN e.buys ELSE e.sells,
                  o.order_id) # -1

(* interpret_order, case AMEND *)
AmendOrder(o) ==
    /\ pc = "idle" /\ ~Halted
    /\ LET r == ammend_order(OB, o)
       IN  /\ SetOB(r.ob)
           /\ out' = interpret_status(o, r.status)
           /\ accepted_max' = IF ammend_applies(OB, o)
                              THEN Larger(accepted_max, o.timestamp)
                              ELSE accepted_max
    /\ cmd' = o
    /\ UNCHANGED <<pc, todo, fault>>

(* interpret_order, case CANCEL *)
CancelOrder(o) ==
    /\ pc = "idle" /\ ~Halted
    /\ LET r == cancel_order(OB, o)
       IN  IF r.null
           THEN /\ fault' = TRUE
                /\ out' = <<>>
                /\ UNCHANGED <<table, timestamp, cache_order_to_symbol,
                               cache_list_sorted_symbol_names, accepted_max>>
           ELSE /\ SetOB(r.ob)
                /\ out' = interpret_status(o, r.status)
                /\ accepted_max' = IF r.status = ACCEPT
                                   THEN Larger(accepted_max, o.timestamp)
                                   ELSE accepted_max
                /\ UNCHANGED fault
    /\ cmd' = o
    /\ UNCHANGED <<pc, todo>>

(* interpret_order, case MATCH: OrderBook::match up to its switch.  A      *)
(* Match by symbol calls match on what lookup returns, NULL included       *)
MatchOrders(o) ==
    /\ pc = "idle" /\ ~Halted
    /\ cmd' = o
    /\ out' = <<>>
    /\ UNCHANGED <<table, timestamp, cache_order_to_symbol,
                   cache_list_sorted_symbol_names, accepted_max>>
    /\ IF too_old(OB, o)
       THEN UNCHANGED <<pc, todo, fault>>
       ELSE LET es == match_entries(OB, o)
            IN  IF \E i \in 1..Len(es) : es[i] = -1
                THEN fault' = TRUE /\ UNCHANGED <<pc, todo>>
                ELSE pc' = "match" /\ todo' = es /\ UNCHANGED fault

(* a pass of OrderEntry::match that leaves the loop after its first trade *)
MatchPassOnce ==
    /\ pc = "match" /\ ~Halted /\ todo # <<>>
    /\ LET r == entry_match_pass(table[Head(todo)], cmd.timestamp)
       IN  /\ table' = [table EXCEPT ![Head(todo)] = r.e]
           /\ out' = out \o r.trade
           /\ todo' = Tail(todo)
    /\ UNCHANGED <<timestamp, cache_order_to_symbol,
                   cache_list_sorted_symbol_names, cmd, pc, fault,
                   accepted_max>>

(* one pass of the loop of OrderEntry::match on the entry being matched *)
MatchPass ==
    /\ pc = "match" /\ ~Halted /\ todo # <<>>
    /\ LET r == entry_match_pass(table[Head(todo)], cmd.timestamp)
       IN  /\ table' = [table EXCEPT ![Head(todo)] = r.e]
           /\ out' = out \o r.trade
           /\ todo' = IF r.done THEN Tail(todo) ELSE todo
    /\ UNCHANGED <<timestamp, cache_order_to_symbol,
                   cache_list_sorted_symbol_names, cmd, pc, fault,
                   accepted_max>>

(* OrderBook::match after its switch: timestamp = o.timestamp *)
MatchReturn ==
    /\ pc = "match" /\ ~Halted /\ todo = <<>>
    /\ timestamp' = cmd.timestamp
    /\ accepted_max' = Larger(accepted_max, cmd.timestamp)
    /\ pc' = "idle"
    /\ UNCHANGED <<table, cache_order_to_symbol,
                   cache_list_sorted_symbol_names, out, cmd, todo, fault>>

(* a query that ends like the other commands with timestamp = o.timestamp *)
QueryOrdersStamped(o) ==
    /\ pc = "idle" /\ ~Halted
    /\ cmd' = o
    /\ LET r == book_query(OB, query_entries(OB, o), query_time(o))
       IN  /\ out' = r.rows
           /\ fault' = r.stopped
    /\ timestamp' = o.timestamp
    /\ UNCHANGED <<table, cache_order_to_symbol,
                   cache_list_sorted_symbol_names, pc, todo, accepted_max>>

(* interpret_order, case QUERY: OrderBook::query neither compares nor      *)
(* assigns the timestamp of the book                                       *)
QueryOrders(o) ==
    /\ pc = "idle" /\ ~Halted
    /\ cmd' = o
    /\ LET r == book_query(OB, query_entries(OB, o), query_time(o))
       IN  /\ out' = r.rows
           /\ fault' = r.stopped
    /\ UNCHANGED <<table, timestamp, cache_order_to_symbol,
                   cache_list_sorted_symbol_names, pc, todo, accepted_max>>

(* ------------------------------ the record ---------------------------- *)

(* rerun and cancelled record what the run has done and the engine keeps   *)
(* no trace of: rerun, that the Match being executed repeats the Match     *)
(* that returned just before it; cancelled, the admitted ids for which     *)
(* interpret_order printed CancelAccept                                    *)
Observed ==
    /\ rerun' = IF pc = "idle"
                THEN /\ pc' = "match"
                     /\ cmd.order_action = "MATCH"
                     /\ cmd.timestamp = timestamp
                     /\ cmd' = cmd
                ELSE pc' = "match" /\ rerun
    /\ cancelled' = IF /\ pc = "idle"
                       /\ cmd'.order_action = "CANCEL"
                       /\ cmd'.order_id \in Admitted
                       /\ out' = << [kind |-> "CancelAccept",
                                     id |-> cmd'.order_id, code |-> 0] >>
                    THEN cancelled \cup {cmd'.order_id}
                    ELSE cancelled
    /\ UNCHANGED <<wide, side>>

(* the record is not kept *)
Unobserved == UNCHANGED <<rerun, cancelled, wide, side>>

(* ------------------------------- inputs -------------------------------- *)

SymAB == <<65, 66>>

SymXYZ == <<88, 89, 90>>

(* hash("DKLD") = hash("AB") *)
SymDKLD == <<68, 75, 76, 68>>

(* between AB and XYZ, in a bucket of its own *)
SymMM == <<77, 77>>

(* two order ids of one bucket: hash(65537) = hash(1) *)
OrderIds == {1, 65537}

Sides == {"BUY", "SELL"}

(* 1.50 and 2.50 *)
Prices == {150, 250}

Quantities == {1, 2}

(* the history of the order an Amend names is short enough to take the     *)
(* two entries of an amendment                                             *)
MaxHistory == 3

CanGrow(o) ==
    ammend_applies(OB, o) =>
        LET e == table[lookup(OB, o.symbol)]
            h == IF o.side = "BUY" THEN e.buys ELSE e.sells
        IN  Len(Data(h, search(h, o.order_id)).history) + 2 <= MaxHistory

(* New commands: symbols Syms, timestamps Times, prices Prs, quantities    *)
(* Qs, at most n orders, which take the ids 1, 2, ... as they are admitted *)
News(Syms, Times, Prs, Qs, n) ==
    \E t \in Times, s \in Syms, si \in Sides, p \in Prs, q \in Qs :
        /\ Cardinality(Admitted) < n
        /\ NewOrder(NewCommand(Cardinality(Admitted) + 1,
                               t, s, "LIMIT", si, p, q))

(* New commands of the side BUY only *)
Buys(Syms, Times, Prs, Qs, n) ==
    \E t \in Times, s \in Syms, p \in Prs, q \in Qs :
        /\ Cardinality(Admitted) < n
        /\ NewOrder(NewCommand(Cardinality(Admitted) + 1,
                               t, s, "LIMIT", "BUY", p, q))

(* New commands that take their ids from Ids, each id once *)
NewsOf(Ids, Syms, Times, Prs, Qs, n) ==
    \E oi \in Ids, t \in Times, s \in Syms, si \in Sides,
       p \in Prs, q \in Qs :
        /\ Cardinality(Admitted) < n
        /\ oi \notin Admitted
        /\ NewOrder(NewCommand(oi, t, s, "LIMIT", si, p, q))

(* Cancel commands for the ids of Ids *)
CancelsOf(Ids, Times) ==
    \E oi \in Ids, t \in Times : CancelOrder(CancelCommand(oi, t))

Amends(Syms, Times, Prs, Qs, n) ==
    \E oi \in 1..n, t \in Times, s \in Syms, si \in Sides,
       p \in Prs, q \in Qs :
        /\ CanGrow(AmendCommand(oi, t, s, "LIMIT", si, p, q))
        /\ AmendOrder(AmendCommand(oi, t, s, "LIMIT", si, p, q))

Cancels(Times, n) ==
    \E oi \in 1..n, t \in Times : CancelOrder(CancelCommand(oi, t))

Matches(Syms, Times) ==
    \E t \in Times :
        \/ MatchOrders(MatchCommand(t, <<>>, "F_MATCH_TIMESTAMP"))
        \/ \E s \in Syms :
              MatchOrders(MatchCommand(t, s, "F_MATCH_TIMESTAMP_SYMBOL"))

(* the Query commands of match_command: bare, by symbol, by timestamp, and *)
(* by both in either order                                                 *)
QueryCommands(Syms, Times) ==
    {QueryCommand(0, <<>>, "F_QUERY")}
    \cup {QueryCommand(0, s, "F_QUERY_SYMBOL") : s \in Syms}
    \cup {QueryCommand(t, <<>>, "F_QUERY_TIMESTAMP") : t \in Times}
    \cup {QueryCommand(c[1], c[2], c[3]) :
            c \in Times \X Syms \X {"F_QUERY_SYMBOL_TIMESTAMP",
                                    "F_QUERY_TIMESTAMP_SYMBOL"}}

Queries(Syms, Times) == \E o \in QueryCommands(Syms, Times) : QueryOrders(o)

(* the timestamp discipline: two symbols with books of their own *)
Next ==
    \/ News({SymAB, SymXYZ}, 0..MaxTime, {150}, {1}, MaxOrders) /\ Unobserved
    \/ Amends({SymAB, SymXYZ}, 0..MaxTime, {250}, {1}, MaxOrders) /\ Unobserved
    \/ Cancels(0..MaxTime, MaxOrders) /\ Unobserved
    \/ Matches({SymAB, SymXYZ}, 0..MaxTime) /\ Unobserved
    \/ MatchPass /\ Unobserved
    \/ MatchReturn /\ Unobserved

Spec == Init /\ [][Next]_vars

(* one book with orders of two prices and two quantities; the Match        *)
(* commands are those without a symbol, which visit the one book           *)
NextBook ==
    \/ News({SymAB}, 0..MaxTime, Prices, Quantities, MaxBookOrders) /\ Unobserved
    \/ Cancels(0..MaxTime, MaxBookOrders) /\ Unobserved
    \/ Matches({}, 0..MaxTime) /\ Unobserved
    \/ MatchPass /\ Unobserved
    \/ MatchReturn /\ Unobserved

SpecBook == Init /\ [][NextBook]_vars

(* one book, one timestamp, one quantity, up to MaxSideOrders orders *)
NextSide ==
    \/ News({SymAB}, {0}, Prices, {1}, MaxSideOrders) /\ Unobserved
    \/ Cancels({0}, MaxSideOrders) /\ Unobserved
    \/ Matches({SymAB}, {0}) /\ Unobserved
    \/ MatchPass /\ Unobserved
    \/ MatchReturn /\ Unobserved

SpecSide == Init /\ [][NextSide]_vars

(* the directory: two symbols of one bucket and a third, one timestamp *)
NextDir ==
    \/ News({SymAB, SymDKLD, SymXYZ}, {0}, {150}, {1}, MaxDirOrders) /\ Unobserved
    \/ Amends({SymAB, SymDKLD, SymXYZ}, {0}, {250}, {1}, MaxDirOrders) /\ Unobserved
    \/ Cancels({0}, MaxDirOrders) /\ Unobserved
    \/ Matches({SymAB, SymDKLD, SymXYZ}, {0}) /\ Unobserved
    \/ MatchPass /\ Unobserved
    \/ MatchReturn /\ Unobserved

SpecDir == Init /\ [][NextDir]_vars

(* the timestamp discipline in one book: timestamps 0..MaxClock and up to  *)
(* MaxClockOrders orders                                                   *)
NextClock ==
    \/ News({SymAB}, 0..MaxClock, {150}, {1}, MaxClockOrders) /\ Unobserved
    \/ Amends({SymAB}, 0..MaxClock, {250}, {1}, MaxClockOrders) /\ Unobserved
    \/ Cancels(0..MaxClock, MaxClockOrders) /\ Unobserved
    \/ Matches({SymAB}, 0..MaxClock) /\ Unobserved
    \/ MatchPass /\ Unobserved
    \/ MatchReturn /\ Unobserved

SpecClock == Init /\ [][NextClock]_vars

(* one book, one timestamp, with the record of the run kept *)
NextWatch ==
    \/ News({SymAB}, {0}, Prices, Quantities, MaxWatchOrders) /\ Observed
    \/ Cancels({0}, MaxWatchOrders) /\ Observed
    \/ Matches({SymAB}, {0}) /\ Observed
    \/ MatchPass /\ Observed
    \/ MatchReturn /\ Observed

SpecWatch == Init /\ [][NextWatch]_vars

(* the histories of the entry being matched are shorter than n *)
HistoryRoom(n) ==
    todo # <<>> =>
        LET e == table[Head(todo)]
        IN  \A i \in 0..(e.buys.matched_ptr - 1),
               j \in 0..(e.sells.matched_ptr - 1) :
                /\ Len(Data(e.buys, i).history) < n
                /\ Len(Data(e.sells, j).history) < n

(* 0.50, below one unit, and 1.50 *)
PennyPrices == {50, 150}

(* one book with a price below 1.00: the match loop is followed while the  *)
(* histories it writes are shorter than MaxPennyHistory                    *)
NextPenny ==
    \/ News({SymAB}, {0}, PennyPrices, Quantities, MaxPennyOrders) /\ Unobserved
    \/ Matches({SymAB}, {0}) /\ Unobserved
    \/ HistoryRoom(MaxPennyHistory) /\ MatchPass /\ Unobserved
    \/ MatchReturn /\ Unobserved

SpecPenny == Init /\ [][NextPenny]_vars

(* one book queried: orders of two prices, amended and cancelled at the    *)
(* timestamps 0..MaxQueryTime, and every form of Query                     *)
NextQuery ==
    \/ News({SymAB}, 0..MaxQueryTime, Prices, {1}, MaxQueryOrders) /\ Unobserved
    \/ Amends({SymAB}, 0..MaxQueryTime, {250}, {2}, MaxQueryOrders) /\ Unobserved
    \/ Cancels(0..MaxQueryTime, MaxQueryOrders) /\ Unobserved
    \/ Queries({SymAB}, 0..MaxQueryTime) /\ Unobserved

SpecQuery == Init /\ [][NextQuery]_vars

(* one book whose orders are amended and traded at the timestamps          *)
(* 0..MaxAsOfTime, so that their histories hold records of several times   *)
NextAsOf ==
    \/ News({SymAB}, 0..MaxAsOfTime, {150}, Quantities, MaxAsOfOrders) /\ Unobserved
    \/ Amends({SymAB}, 0..MaxAsOfTime, {250}, {2}, MaxAsOfOrders) /\ Unobserved
    \/ Matches({SymAB}, 0..MaxAsOfTime) /\ Unobserved
    \/ MatchPass /\ Unobserved
    \/ MatchReturn /\ Unobserved

SpecAsOf == Init /\ [][NextAsOf]_vars

(* one buy heap that takes up to MaxHeapOrders orders of two prices, with  *)
(* cancellations and amendments in between                                 *)
NextHeap ==
    \/ Buys({SymAB}, {0}, Prices, {1}, MaxHeapOrders) /\ Unobserved
    \/ Cancels({0}, MaxHeapOrders) /\ Unobserved

SpecHeap == Init /\ [][NextHeap]_vars

(* one buy heap that takes more orders than a Query displays *)
NextTop ==
    \/ Buys({SymAB}, {0}, Prices, {1}, MaxTopOrders) /\ Unobserved
    \/ Queries({SymAB}, {0}) /\ Unobserved

SpecTop == Init /\ [][NextTop]_vars

(* three symbols with books of their own, entered in any order, with       *)
(* enough orders for two of the books to trade                             *)
NextNames ==
    \/ News({SymAB, SymMM, SymXYZ}, {0}, {150}, {1}, MaxNameOrders) /\ Unobserved
    \/ Matches({SymAB, SymMM, SymXYZ}, {0}) /\ Unobserved
    \/ MatchPass /\ Unobserved
    \/ MatchReturn /\ Unobserved
    \/ Queries({SymAB, SymMM, SymXYZ}, {0}) /\ Unobserved

SpecNames == Init /\ [][NextNames]_vars

(* two symbols and two order ids that fall in one bucket of                *)
(* cache_order_to_symbol                                                   *)
NextIds ==
    \/ NewsOf(OrderIds, {SymAB, SymXYZ}, 0..MaxTime, {150}, {1}, MaxIdOrders) /\ Unobserved
    \/ CancelsOf(OrderIds, 0..MaxTime) /\ Unobserved
    \/ Matches({SymAB, SymXYZ}, 0..MaxTime) /\ Unobserved
    \/ MatchPass /\ Unobserved
    \/ MatchReturn /\ Unobserved

SpecIds == Init /\ [][NextIds]_vars

(* match_order_type: M, L and I *)
OrderTypes == {"MARKET", "LIMIT", "IOC"}

(* New commands of every order type *)
TypedNews(Syms, Times, Prs, Qs, n) ==
    \E t \in Times, s \in Syms, ot \in OrderTypes, si \in Sides,
       p \in Prs, q \in Qs :
        /\ Cardinality(Admitted) < n
        /\ NewOrder(NewCommand(Cardinality(Admitted) + 1,
                               t, s, ot, si, p, q))

(* Amend commands of every order type *)
TypedAmends(Syms, Times, Prs, Qs, n) ==
    \E oi \in 1..n, t \in Times, s \in Syms, ot \in OrderTypes,
       si \in Sides, p \in Prs, q \in Qs :
        /\ CanGrow(AmendCommand(oi, t, s, ot, si, p, q))
        /\ AmendOrder(AmendCommand(oi, t, s, ot, si, p, q))

(* one book that takes orders of the three types *)
NextTypes ==
    \/ TypedNews({SymAB}, {0}, Prices, {1}, MaxTypeOrders) /\ Unobserved
    \/ TypedAmends({SymAB}, {0}, {250}, {2}, MaxTypeOrders) /\ Unobserved
    \/ Matches({}, {0}) /\ Unobserved
    \/ MatchPass /\ Unobserved
    \/ MatchReturn /\ Unobserved
    \/ Queries({}, {0}) /\ Unobserved

SpecTypes == Init /\ [][NextTypes]_vars

(* the heap of buys after n rounds of  N,1,0,AB,L,B,1.50,1 ; X,1,0: each   *)
(* insert moves the cancelled order of slot 0 to slot matched_ptr and puts *)
(* the new order in slot 0, where the cancel finds it.  No order is        *)
(* active, the slots 0..n-1 hold the cancelled order and the slots from n  *)
(* on are as the constructor left them                                     *)
RetiredHeap(n) ==
    LET o == Order(1, "LIMIT", 0, 150, 1)
        c == Data(heap_cancel(heap_insert(OrderMinMaxHeap("BUY_HEAP"), o),
                              1), 0)
    IN  [OrderMinMaxHeap("BUY_HEAP") EXCEPT
           !.rest = c,
           !.data = [i \in n..(MAX_NUM_ORDERS_IN_HEAP - 1) |-> DefaultOrder],
           !.matched_ptr = n]

(* a heap that such rounds have filled up to its last MaxFullRoom slots or *)
(* less, in a book that has read no command since                          *)
InitFull ==
    /\ table = <<>>
    /\ timestamp = 0
    /\ cache_order_to_symbol = <<>>
    /\ cache_list_sorted_symbol_names = <<>>
    /\ out = <<>>
    /\ cmd = NoCommand
    /\ pc = "idle"
    /\ todo = <<>>
    /\ fault = FALSE
    /\ accepted_max = 0
    /\ rerun = FALSE
    /\ cancelled = {}
    /\ wide = WideOrder(Quantity(0, 0, 0, 0))
    /\ side \in {RetiredHeap(MAX_NUM_ORDERS_IN_HEAP - k) :
                    k \in 0..MaxFullRoom}

(* OrderEntry::add on the heap: insert(datum) *)
SideInsert(datum) ==
    /\ ~side.oob
    /\ side' = heap_insert(side, datum)
    /\ UNCHANGED <<table, timestamp, cache_order_to_symbol,
                   cache_list_sorted_symbol_names, out, cmd, pc, todo,
                   fault, accepted_max, rerun, cancelled, wide>>

(* OrderEntry::cancel on the heap: cancel(id) *)
SideCancel(id) ==
    /\ ~side.oob
    /\ side' = heap_cancel(side, id)
    /\ UNCHANGED <<table, timestamp, cache_order_to_symbol,
                   cache_list_sorted_symbol_names, out, cmd, pc, todo,
                   fault, accepted_max, rerun, cancelled, wide>>

NextFull ==
    \/ \E p \in Prices, q \in Quantities :
          SideInsert(Order(2, "LIMIT", 0, p, q))
    \/ SideCancel(2)

SpecFull == InitFull /\ [][NextFull]_vars

(* quantities and fill amounts over the width of quantity_t: small ones,   *)
(* and ones around 2^31, 2^32 and 2^63                                     *)
WideQuantities ==
    {Quantity(d1, d2, d3, d4) :
        d1 \in 0..MaxWideDigit, d2 \in {0, 32768}, d3 \in {0, 1},
        d4 \in {0, 65535}}

(* an order of any remaining quantity, and no command read yet *)
InitWide ==
    /\ table = <<>>
    /\ timestamp = 0
    /\ cache_order_to_symbol = <<>>
    /\ cache_list_sorted_symbol_names = <<>>
    /\ out = <<>>
    /\ cmd = NoCommand
    /\ pc = "idle"
    /\ todo = <<>>
    /\ fault = FALSE
    /\ accepted_max = 0
    /\ rerun = FALSE
    /\ cancelled = {}
    /\ wide \in {WideOrder(q) : q \in WideQuantities}
    /\ side = OrderMinMaxHeap("BUY_HEAP")

(* a fill of the order while it is in the active region *)
WideTransact(amount) ==
    /\ wide.active
    /\ wide.fills < MaxWideFills
    /\ wide' = wide_transact(wide, amount)
    /\ UNCHANGED <<table, timestamp, cache_order_to_symbol,
                   cache_list_sorted_symbol_names, out, cmd, pc, todo,
                   fault, accepted_max, rerun, cancelled, side>>

NextWide == \E amount \in WideQuantities : WideTransact(amount)

SpecWide == InitWide /\ [][NextWide]_vars

(* ------------------------------- claims -------------------------------- *)

(* the state of the engine a command can change *)
Engine == <<table, timestamp, cache_order_to_symbol,
            cache_list_sorted_symbol_names>>

(* a step that takes a command from the input: the command is cmd' *)
Takes(action) == pc = "idle" /\ ~Halted /\ cmd'.order_action = action

(* a pass of the match loop that prints a trade: the trade is Last(out') *)
Trades == pc = "match" /\ Len(out') = Len(out) + 1

Last(sq) == sq[Len(sq)]

(* the orders a heap retains, data[0..matched_ptr) *)
Retained(h) == {Data(h, i) : i \in 0..(h.matched_ptr - 1)}

(* the retained orders whose current status is NOT_EXECUTED or             *)
(* PARTIALLY_EXECUTED, as a linear scan finds them                         *)
ActiveOrders(h) == {o \in Retained(h) : active_at(o, NOW)}

(* the retained order of a heap with the given id *)
OrderOf(h, id) == CHOOSE o \in Retained(h) : o.order_id = id

(* the symbol an order id was admitted under *)
SymbolOf(id) ==
    LET es == UNION { {cache_order_to_symbol[h][i] :
                         i \in 1..Len(cache_order_to_symbol[h])} :
                      h \in DOMAIN cache_order_to_symbol }
    IN  (CHOOSE e \in es : e.oi = id).symbol

Smaller(a, b) == IF a <= b THEN a ELSE b

(* C1: a New, Amend, Cancel or Match command whose timestamp is smaller    *)
(* than last_timestamp changes no side book, no order history, neither     *)
(* the symbol directory nor the order-to-symbol map nor last_timestamp.    *)
C1_StaleCommandChangesNothing ==
    [][ (/\ pc = "idle" /\ ~Halted
         /\ cmd'.order_action \in {"NEW", "AMEND", "CANCEL", "MATCH"}
         /\ cmd'.timestamp < timestamp)
        => (UNCHANGED Engine /\ pc' = "idle" /\ ~Halted') ]_vars

(* C1 witness: a Match with a stale timestamp was taken by a book that     *)
(* holds orders                                                            *)
C1_Witness ==
    /\ pc = "idle" /\ cmd.order_action = "MATCH"
    /\ cmd.timestamp < timestamp
    /\ table # <<>>

(* C2: after any sequence of commands last_timestamp is the largest        *)
(* timestamp of the New, Amend, Cancel and Match commands accepted so far  *)
(* (0 if there are none).                                                  *)
C2_TimestampIsMaxAccepted ==
    (pc = "idle" /\ ~Halted) => timestamp = accepted_max

RestsInOwnBook(tbl, o) ==
    \E b \in DOMAIN tbl :
        /\ tbl[b].symbol = o.symbol
        /\ LET h == IF o.side = "BUY" THEN tbl[b].buys ELSE tbl[b].sells
           IN  \E i \in 0..(h.active_ptr - 1) :
                   /\ i \in h.allocated
                   /\ Data(h, i) = Order(o.order_id, o.order_type,
                                         o.timestamp, o.price, o.quantity)

(* C4: a New command with a timestamp not below last_timestamp prints      *)
(* Accept(id), and afterwards the order is active in the side book of its  *)
(* own symbol and side, its history the single entry {NotExecuted, t,      *)
(* price, qty}.                                                            *)
C4_NewOrderRestsInOwnBook ==
    [][ (Takes("NEW") /\ cmd'.timestamp >= timestamp)
        => /\ out' = << [kind |-> "Accept", id |-> cmd'.order_id,
                         code |-> 0] >>
           /\ RestsInOwnBook(table', cmd') ]_vars

(* C5: whenever a buy side book holds an active order, the order the match *)
(* loop takes as best buy is active and its price is the largest among the *)
(* active orders of that book.                                             *)
C5_BestBuyHasLargestPrice ==
    (pc = "idle" /\ ~Halted) =>
        \A b \in DOMAIN table :
            LET h == table[b].buys
            IN  ActiveOrders(h) # {} =>
                    /\ get_max_order(h) # -1
                    /\ Data(h, get_max_order(h)) \in ActiveOrders(h)
                    /\ \A o \in ActiveOrders(h) :
                           get_price(o, NOW)
                               <= get_price(Data(h, get_max_order(h)), NOW)

(* C6: whenever a sell side book holds an active order, the order the      *)
(* match loop takes as best sell is active and its price is the smallest   *)
(* among the active orders of that book, however many they are.            *)
C6_BestSellHasSmallestPrice ==
    (pc = "idle" /\ ~Halted) =>
        \A b \in DOMAIN table :
            LET h == table[b].sells
            IN  ActiveOrders(h) # {} =>
                    /\ get_max_order(h) # -1
                    /\ Data(h, get_max_order(h)) \in ActiveOrders(h)
                    /\ \A o \in ActiveOrders(h) :
                           get_price(o, NOW)
                               >= get_price(Data(h, get_max_order(h)), NOW)

(* C7: among the active buys at one price the earliest has priority: a     *)
(* trade never takes a buy while another active buy of the same book has   *)
(* the same price and an earlier timestamp.                                *)
C7_EarlierBuyTradesFirst ==
    [][ Trades =>
        LET h == table[Head(todo)].buys
            b == OrderOf(h, Last(out').b_oi)
        IN  \A o \in ActiveOrders(h) :
                ~ (/\ get_price(o, NOW) = get_price(b, NOW)
                   /\ get_timestamp(o, NOW) < get_timestamp(b, NOW)) ]_vars

(* C8: every trade pairs a buy and a sell of the same symbol that were     *)
(* both active just before it, the price of the buy not below the price of *)
(* the sell.                                                               *)
C8_TradePairsActiveCrossingOrders ==
    [][ Trades =>
        LET e  == table[Head(todo)]
            ev == Last(out')
        IN  /\ SymbolOf(ev.b_oi) = SymbolOf(ev.s_oi)
            /\ \E o \in ActiveOrders(e.buys) : o.order_id = ev.b_oi
            /\ \E o \in ActiveOrders(e.sells) : o.order_id = ev.s_oi
            /\ ev.b_price >= ev.s_price ]_vars

(* C9: a trade between a buy with qb left and a sell with qs left takes    *)
(* min(qb, qs) from both: afterwards the buy has qb - min(qb, qs) left and *)
(* the sell qs - min(qb, qs).                                              *)
C9_TradeTakesTheSmallerQuantity ==
    [][ Trades =>
        LET ev == Last(out')
            e1 == table'[Head(todo)]
            m  == Smaller(ev.b_quantity, ev.s_quantity)
        IN  /\ get_quantity(OrderOf(e1.buys, ev.b_oi), NOW)
                   = ev.b_quantity - m
            /\ get_quantity(OrderOf(e1.sells, ev.s_oi), NOW)
                   = ev.s_quantity - m ]_vars

(* what has been filled of the orders of a heap: the sum, over the orders  *)
(* it retains, of the original quantity less the remaining one             *)
RECURSIVE FilledOf(_)
FilledOf(S) ==
    IF S = {} THEN 0
    ELSE LET o == CHOOSE x \in S : TRUE
         IN  (o.history[1].quantity_remaining - get_quantity(o, NOW))
                 + FilledOf(S \ {o})

(* C10: after orders were inserted and matched, the quantity filled on the *)
(* buys of a symbol equals the quantity filled on its sells.               *)
C10_FilledBuysEqualFilledSells ==
    (pc = "idle" /\ ~Halted) =>
        \A b \in DOMAIN table :
            FilledOf(Retained(table[b].buys))
                = FilledOf(Retained(table[b].sells))

(* the quantity that remains on a set of orders *)
RECURSIVE RemainingOf(_)
RemainingOf(S) ==
    IF S = {} THEN 0
    ELSE LET o == CHOOSE x \in S : TRUE
         IN  get_quantity(o, NOW) + RemainingOf(S \ {o})

(* the quantity that remains on the active orders of an entry *)
Remaining(e) ==
    RemainingOf(ActiveOrders(e.buys)) + RemainingOf(ActiveOrders(e.sells))

(* C11: every Match terminates, because each pass of the loop that pairs   *)
(* two orders fills one of them: a pass that prints a trade leaves less    *)
(* quantity on the active orders of the book than it found.                *)
C11_MatchPassMakesProgress ==
    [][ Trades => Remaining(table'[Head(todo)])
                      < Remaining(table[Head(todo)]) ]_vars

(* an active buy and an active sell of the entry cross *)
Cross(e) ==
    \E b \in ActiveOrders(e.buys), s \in ActiveOrders(e.sells) :
        get_price(b, NOW) >= get_price(s, NOW)

(* the step on which OrderBook::match returns after its loops *)
MatchCompletes == pc = "match" /\ pc' = "idle"

(* C12: when a Match completes, no cross remains in a book it matched: no  *)
(* active buy has a price at or above the price of an active sell.         *)
C12_NoCrossAfterMatch ==
    [][ MatchCompletes =>
        LET es == match_entries(OB, cmd)
        IN  \A i \in 1..Len(es) : ~Cross(table'[es[i]]) ]_vars

(* C13: a Match that repeats, at the same timestamp, the Match that        *)
(* completed just before it prints no trade and changes no order history.  *)
C13_RepeatedMatchDoesNothing ==
    [][ (pc = "match" /\ rerun) => (table' = table /\ out' = out) ]_vars

(* C13 witness: the repeated Match has gone through a book in which an     *)
(* earlier Match executed an order                                         *)
C13_Witness ==
    /\ pc = "match" /\ rerun /\ todo = <<>>
    /\ \E b \in DOMAIN table :
           \E o \in Retained(table[b].buys) :
               get_status(o, NOW) = "EXECUTED"

(* C14: once a Cancel of an admitted order id was answered CancelAccept,   *)
(* no Match prints a trade with that id, as buy or as sell.                *)
C14_CancelledOrderNeverTrades ==
    [][ Trades => /\ Last(out').b_oi \notin cancelled
                  /\ Last(out').s_oi \notin cancelled ]_vars

(* C15: a Cancel whose timestamp is not below last_timestamp and whose id  *)
(* no New command brought in, on an empty engine too, prints               *)
(* CancelReject(id, 404), changes no book and does not fault.              *)
C15_CancelOfUnknownIdIsRejected ==
    [][ (/\ Takes("CANCEL")
         /\ cmd'.timestamp >= timestamp
         /\ cmd'.order_id \notin Admitted)
        => /\ out' = << [kind |-> "CancelReject", id |-> cmd'.order_id,
                         code |-> ORDER_DOES_NOT_EXIST] >>
           /\ table' = table
           /\ ~fault' ]_vars

(* the orders with the given id that the books retain *)
OrdersWithId(tbl, id) ==
    UNION { {o \in Retained(tbl[b].buys) \cup Retained(tbl[b].sells) :
               o.order_id = id} : b \in DOMAIN tbl }

(* the order with the given id is active in its book *)
IsActive(tbl, id) == \E o \in OrdersWithId(tbl, id) : active_at(o, NOW)

(* the current status of the order with the given id is Cancelled *)
IsCancelled(tbl, id) ==
    \E o \in OrdersWithId(tbl, id) : get_status(o, NOW) = "CANCELLED"

(* C16: a Cancel is answered CancelAccept(id) only if the order was active *)
(* just before it and is Cancelled after it; a Cancel, not too old, of an  *)
(* admitted order that is not active (Executed or Cancelled already) is    *)
(* answered CancelReject(id, 404).                                         *)
C16_CancelAcceptMeansCancelled ==
    [][ Takes("CANCEL") =>
        LET id == cmd'.order_id
        IN  /\ (out' = << [kind |-> "CancelAccept", id |-> id,
                           code |-> 0] >>)
                   => (IsActive(table, id) /\ IsCancelled(table', id))
            /\ (/\ cmd'.timestamp >= timestamp
                /\ id \in Admitted
                /\ ~IsActive(table, id))
                   => out' = << [kind |-> "CancelReject", id |-> id,
                                 code |-> ORDER_DOES_NOT_EXIST] >> ]_vars

(* an Amend names an existing symbol, the right side and the id of an      *)
(* active order: the book of the symbol holds the order, active, in the    *)
(* heap of the side                                                        *)
NamesActiveOrder(tbl, o) ==
    \E b \in DOMAIN tbl :
        /\ tbl[b].symbol = o.symbol
        /\ LET h == IF o.side = "BUY" THEN tbl[b].buys ELSE tbl[b].sells
           IN  \E x \in ActiveOrders(h) : x.order_id = o.order_id

(* C17: every Amend prints exactly one line, AmendAccept(id) or            *)
(* AmendReject(id, reason); an Amend, not too old, that names an existing  *)
(* symbol, the right side and the id of an active order prints             *)
(* AmendAccept(id).                                                        *)
C17_AmendIsAnswered ==
    [][ Takes("AMEND") =>
        /\ Len(out') = 1
        /\ out'[1].kind \in {"AmmendAccept", "AmmendReject"}
        /\ out'[1].id = cmd'.order_id
        /\ (cmd'.timestamp >= timestamp /\ NamesActiveOrder(table, cmd'))
               => out'[1].kind = "AmmendAccept" ]_vars

(* a book of the symbol exists *)
HasBook(tbl, sym) == \E b \in DOMAIN tbl : tbl[b].symbol = sym

(* C18: an Amend whose id is not an active order on the side it names, in  *)
(* the book of an existing symbol, prints AmendReject(id, 404) and changes *)
(* no order history.                                                       *)
C18_AmendOfMissingOrderIsRejected ==
    [][ (/\ Takes("AMEND")
         /\ cmd'.timestamp >= timestamp
         /\ HasBook(table, cmd'.symbol)
         /\ ~NamesActiveOrder(table, cmd'))
        => /\ out' = << [kind |-> "AmmendReject", id |-> cmd'.order_id,
                         code |-> ORDER_DOES_NOT_EXIST] >>
           /\ table' = table ]_vars

(* the symbols New commands were admitted under *)
AdmittedSymbols ==
    UNION { {cache_order_to_symbol[h][i].symbol :
               i \in 1..Len(cache_order_to_symbol[h])} :
            h \in DOMAIN cache_order_to_symbol }

(* C19: an Amend, not too old, that names a symbol under which no New      *)
(* order was ever admitted prints AmendReject(id, 404) and changes no      *)
(* state.                                                                  *)
C19_AmendOfUnknownSymbolIsRejected ==
    [][ (/\ Takes("AMEND")
         /\ cmd'.timestamp >= timestamp
         /\ cmd'.symbol \notin AdmittedSymbols)
        => /\ out' = << [kind |-> "AmmendReject", id |-> cmd'.order_id,
                         code |-> ORDER_DOES_NOT_EXIST] >>
           /\ UNCHANGED Engine ]_vars

(* C20: an Amend that is applied keeps the id and the priority timestamp   *)
(* of the order: every order the books retain is there afterwards under    *)
(* the same id with the same current timestamp (get_timestamp at now).     *)
C20_AmendKeepsIdAndTimestamp ==
    [][ (Takes("AMEND") /\ ammend_applies(OB, cmd')) =>
        \A b \in DOMAIN table :
            \A o \in Retained(table[b].buys) \cup Retained(table[b].sells) :
                /\ Cardinality(OrdersWithId(table', o.order_id)) = 1
                /\ \A x \in OrdersWithId(table', o.order_id) :
                       get_timestamp(x, NOW) = get_timestamp(o, NOW) ]_vars

(* C20 witness: an Amend has given an order a new price at a time after    *)
(* the order was entered                                                   *)
C20_Witness ==
    /\ pc = "idle" /\ cmd.order_action = "AMEND"
    /\ \E o \in OrdersWithId(table, cmd.order_id) :
           /\ get_price(o, NOW) = cmd.price
           /\ o.history[1].price # cmd.price
           /\ cmd.timestamp > o.history[1].timestamp

(* the sub-records the lines of a Query show for the order id *)
Shown(rows, id) ==
    {r.buy[1] : r \in {x \in {rows[i] : i \in 1..Len(rows)} :
                          x.buy # <<>> /\ x.buy[1].oi = id}}
    \cup {r.sell[1] : r \in {x \in {rows[i] : i \in 1..Len(rows)} :
                                x.sell # <<>> /\ x.sell[1].oi = id}}

(* the heap of the side a command names, in the entry of its symbol *)
HeapOf(tbl, o) ==
    LET e == tbl[hash_str(o.symbol)]
    IN  IF o.side = "BUY" THEN e.buys ELSE e.sells

(* C21: when an Amend command of time t1 is applied to an order created    *)
(* at t0 < t1, a Query of the book as of any t with t0 <= t < t1 shows the *)
(* order with the price and quantity it had before the Amend, and a Query  *)
(* as of any t >= t1 shows it with the price and quantity of the Amend.    *)
C21_AsOfQuerySeesAmendFromItsTime ==
    [][ (Takes("AMEND") /\ ammend_applies(OB, cmd')) =>
          LET h  == HeapOf(table, cmd')
              o  == Data(h, search(h, cmd'.order_id))
              t0 == o.history[1].timestamp
              t1 == cmd'.timestamp
              e  == table'[hash_str(cmd'.symbol)]
          IN  t0 < t1 =>
                /\ \A t \in t0..(t1 - 1) :
                      Shown(entry_query(e, t).rows, o.order_id) =
                          {[oi |-> o.order_id, order_type |-> o.order_type,
                            quantity |-> get_quantity(o, NOW),
                            price |-> get_price(o, NOW)]}
                /\ \A t \in t1..MaxQueryTime :
                      Shown(entry_query(e, t).rows, o.order_id) =
                          {[oi |-> o.order_id, order_type |-> o.order_type,
                            quantity |-> cmd'.quantity,
                            price |-> cmd'.price]} ]_vars

(* the orders found anywhere in data[] of the heaps of a table *)
StoredOrders(tbl) ==
    UNION { {tbl[b].buys.data[i] : i \in DOMAIN tbl[b].buys.data}
            \cup {tbl[b].sells.data[i] : i \in DOMAIN tbl[b].sells.data} :
            b \in DOMAIN tbl }

(* the index of the last record, in history order, among those of the     *)
(* largest timestamp not above t; 0 when every record is later than t      *)
LatestUpTo(o, t) ==
    LET upto == {i \in 1..Len(o.history) : o.history[i].timestamp <= t}
        top  == {i \in upto : \A j \in upto :
                    o.history[j].timestamp <= o.history[i].timestamp}
    IN  IF upto = {} THEN 0 ELSE Max(top)

(* C22: for every admitted order and every t from its creation timestamp   *)
(* on, get_history_entry(t) is the record with the largest timestamp not   *)
(* above t, the last of them in history order; get_history_entry(-1) is    *)
(* the final record of the history.                                        *)
C22_AsOfReturnsLatestRecordUpTo ==
    \A o \in StoredOrders(table) :
        /\ get_history_entry(o, NOW) = o.history[Len(o.history)]
        /\ \A t \in o.history[1].timestamp..MaxAsOfTime :
              get_history_entry(o, t) = o.history[LatestUpTo(o, t)]

(* an order whose history holds several records of time 0 and a later one: *)
(* as of 0 the record returned is neither the first nor the final one      *)
C22_Witness ==
    \E o \in StoredOrders(table) :
        /\ Len(o.history) >= 3
        /\ o.history[1].timestamp = 0 /\ o.history[2].timestamp = 0
        /\ o.history[Len(o.history)].timestamp > 0
        /\ get_history_entry(o, 0) = o.history[LatestUpTo(o, 0)]
        /\ get_history_entry(o, 0) # o.history[1]
        /\ get_history_entry(o, 0) # get_history_entry(o, NOW)

Terminal(r) == r.history = "EXECUTED" \/ r.history = "CANCELLED"

(* C23: the history of every order is in non-decreasing timestamp order    *)
(* and only its last record can be Executed or Cancelled: no record        *)
(* follows a terminal one.                                                 *)
C23_HistoryEndsAtItsTerminalRecord ==
    \A o \in StoredOrders(table) :
        \A i \in 1..(Len(o.history) - 1) :
            /\ o.history[i].timestamp <= o.history[i + 1].timestamp
            /\ ~Terminal(o.history[i])

(* the creation timestamp of the retained order of a heap with the id *)
CreatedAt(h, id) == OrderOf(h, id).history[1].timestamp

(* C24: in the lines a Query prints for a book, the buy sub-records are in *)
(* non-increasing order of price and the sell sub-records in               *)
(* non-decreasing order of price, the prices being those as of the time    *)
(* of the Query; of two sub-records of one price the one of the order      *)
(* with the earlier timestamp comes first.                                 *)
C24_SnapshotRowsAreInPriorityOrder ==
    [][ (Takes("QUERY") /\ ~fault') =>
          \A i, j \in 1..Len(out') :
              (i < j /\ out'[i].symbol = out'[j].symbol) =>
                  LET e == table[hash_str(out'[i].symbol)]
                      a == out'[i]
                      b == out'[j]
                  IN  /\ (a.buy # <<>> /\ b.buy # <<>>) =>
                            /\ a.buy[1].price >= b.buy[1].price
                            /\ a.buy[1].price = b.buy[1].price =>
                                  CreatedAt(e.buys, a.buy[1].oi)
                                      <= CreatedAt(e.buys, b.buy[1].oi)
                      /\ (a.sell # <<>> /\ b.sell # <<>>) =>
                            /\ a.sell[1].price <= b.sell[1].price
                            /\ a.sell[1].price = b.sell[1].price =>
                                  CreatedAt(e.sells, a.sell[1].oi)
                                      <= CreatedAt(e.sells, b.sell[1].oi) ]_vars

(* the slots of the retained region whose order is active at t *)
ActiveAt(h, t) == {i \in 0..(h.matched_ptr - 1) : active_at(Data(h, i), t)}

(* subs, the sub-records of one side in the lines of a Query as of t, are  *)
(* the top n of the heap h: min(n, k) of them for k orders active at t,    *)
(* with pairwise distinct ids of admitted orders active at t, none of      *)
(* which has a worse price than an active order left out                   *)
IsTopN(subs, h, t, n) ==
    LET k   == Cardinality(ActiveAt(h, t))
        ids == {subs[i].oi : i \in 1..Len(subs)}
    IN  /\ Len(subs) = Smaller(n, k)
        /\ \A i, j \in 1..Len(subs) : i # j => subs[i].oi # subs[j].oi
        /\ \A i \in 1..Len(subs) :
              /\ subs[i].oi \in Admitted
              /\ \E d \in ActiveAt(h, t) :
                    /\ Data(h, d).order_id = subs[i].oi
                    /\ get_price(Data(h, d), t) = subs[i].price
        /\ \A i \in 1..Len(subs), d \in ActiveAt(h, t) :
              Data(h, d).order_id \notin ids =>
                  IF h.heap_type = "BUY_HEAP"
                  THEN subs[i].price >= get_price(Data(h, d), t)
                  ELSE subs[i].price <= get_price(Data(h, d), t)

(* the buy, or sell, sub-records of the lines for a symbol, in order *)
BuySubs(rows, sym) ==
    LET Is(r) == r.symbol = sym /\ r.buy # <<>>
        sel   == SelectSeq(rows, Is)
    IN  [i \in 1..Len(sel) |-> sel[i].buy[1]]

SellSubs(rows, sym) ==
    LET Is(r) == r.symbol = sym /\ r.sell # <<>>
        sel   == SelectSeq(rows, Is)
    IN  [i \in 1..Len(sel) |-> sel[i].sell[1]]

(* C25: a Query as of t that finds its books shows, for each side of every *)
(* book it visits, the                                                     *)
(* top TOP_N orders: min(TOP_N, k) sub-records for k retained orders       *)
(* active at t, of pairwise distinct admitted orders active at t, the best *)
(* by price when k > TOP_N; the book takes as many lines as the longer of  *)
(* its two sides.                                                          *)
C25_SnapshotShowsTopOrdersOfEachSide ==
    [][ (/\ Takes("QUERY")
         /\ \A i \in DOMAIN query_entries(OB, cmd') :
               query_entries(OB, cmd')[i] # -1) =>
          /\ ~fault'
          /\ \A b \in DOMAIN table :
                (\E i \in DOMAIN query_entries(OB, cmd') :
                     query_entries(OB, cmd')[i] = b) =>
                    LET e  == table[b]
                        t  == query_time(cmd')
                        bs == BuySubs(out', e.symbol)
                        ss == SellSubs(out', e.symbol)
                        Of(r) == r.symbol = e.symbol
                    IN  /\ IsTopN(bs, e.buys, t, TOP_N)
                        /\ IsTopN(ss, e.sells, t, TOP_N)
                        /\ Len(SelectSeq(out', Of))
                               = Larger(Len(bs), Len(ss)) ]_vars

(* the symbols of the entries of a table *)
BookSymbols(tbl) == {tbl[b].symbol : b \in DOMAIN tbl}

(* the list of names is in strictly ascending order and holds the symbols  *)
(* of the entries of the table                                             *)
NamesSorted(list, tbl) ==
    /\ \A i, j \in 1..Len(list) : i < j => strcmp(list[i], list[j]) < 0
    /\ {list[i] : i \in 1..Len(list)} = BookSymbols(tbl)

(* the lines of an output are in ascending order of their symbols *)
AscendingSymbols(lines) ==
    \A i, j \in 1..Len(lines) :
        i < j => strcmp(lines[i].symbol, lines[j].symbol) <= 0

(* C26: after every command the sorted list of symbol names is in strictly *)
(* ascending lexicographic order and holds exactly the symbols that have a *)
(* book, each once; a Query of all books prints the lines of a smaller     *)
(* symbol before those of a larger one.                                    *)
C26_SymbolNamesAreSorted ==
    [][ /\ NamesSorted(cache_list_sorted_symbol_names', table')
        /\ (/\ Takes("QUERY")
            /\ cmd'.format \in {"F_QUERY", "F_QUERY_TIMESTAMP"})
           => AscendingSymbols(out') ]_vars

(* C27: the trades a Match of all books prints are in ascending order of   *)
(* their symbols: every trade of a smaller symbol comes before any trade   *)
(* of a larger one.                                                        *)
C27_GlobalMatchGoesBySymbol ==
    (cmd.order_action = "MATCH" /\ cmd.format = "F_MATCH_TIMESTAMP")
        => AscendingSymbols(out)

(* the command names a symbol: a Match of one book or a Query of one book *)
BySymbol(o) ==
    \/ o.order_action = "MATCH" /\ o.format = "F_MATCH_TIMESTAMP_SYMBOL"
    \/ /\ o.order_action = "QUERY"
       /\ o.format \in {"F_QUERY_SYMBOL", "F_QUERY_SYMBOL_TIMESTAMP",
                         "F_QUERY_TIMESTAMP_SYMBOL"}

(* C28: a Match of one book or a Query of one book that names a symbol     *)
(* under which no order was ever admitted prints nothing, changes no book  *)
(* and does not fault.                                                     *)
C28_UnknownSymbolIsANoOp ==
    [][ (/\ pc = "idle" /\ ~Halted
         /\ BySymbol(cmd')
         /\ cmd'.symbol \notin AdmittedSymbols)
        => /\ out' = <<>>
           /\ table' = table
           /\ ~fault' ]_vars

(* the orders found in data[] of the two heaps of an entry *)
OrdersIn(e) ==
    {e.buys.data[i] : i \in DOMAIN e.buys.data}
    \cup {e.sells.data[i] : i \in DOMAIN e.sells.data}

(* C29: the books are keyed by their symbol: lookup of a symbol returns no *)
(* book of another symbol, and every admitted order is stored in the book  *)
(* whose symbol is the one it was admitted under.                          *)
C29_BooksAreKeyedBySymbol ==
    /\ \A sym \in {SymAB, SymDKLD, SymXYZ} :
          lookup(OB, sym) # -1 => table[lookup(OB, sym)].symbol = sym
    /\ \A b \in DOMAIN table :
          \A o \in OrdersIn(table[b]) :
              o.order_id \in Admitted
                  => SymbolOf(o.order_id) = table[b].symbol

(* C30: for every order id a New command was admitted with, the bucket of *)
(* the id in the order-to-symbol map is not empty and the symbol Cancel    *)
(* reads for the id is the symbol the id was admitted under, also when     *)
(* several admitted ids share the bucket.                                  *)
C30_CancelResolvesTheAdmissionSymbol ==
    \A oi \in Admitted :
        /\ hash_int(oi) \in DOMAIN cache_order_to_symbol
        /\ symbol_of(OB, oi) = SymbolOf(oi)

(* the Cancel command reaches an order: it is not too old, the bucket of   *)
(* its id is not empty, the symbol read there has an entry and the buy     *)
(* heap of that entry holds the id                                         *)
cancel_applies(ob, o) ==
    /\ ~too_old(ob, o)
    /\ hash_int(o.order_id) \in DOMAIN ob.cache_order_to_symbol
    /\ lookup(ob, symbol_of(ob, o.order_id)) # -1
    /\ search(ob.table[lookup(ob, symbol_of(ob, o.order_id))].buys,
              o.order_id) # -1

(* C31: a Cancel command of time t that cancels an order appends to its    *)
(* history the record {Cancelled, t, current price, current quantity}, so  *)
(* that the order is still active as of every t' with creation <= t' < t.  *)
C31_CancelRecordCarriesCommandTime ==
    [][ (Takes("CANCEL") /\ cancel_applies(OB, cmd')) =>
          LET b  == lookup(OB, symbol_of(OB, cmd'.order_id))
              h  == table[b].buys
              o  == Data(h, search(h, cmd'.order_id))
              o2 == OrderOf(table'[b].buys, cmd'.order_id)
          IN  /\ o2.history =
                    Append(o.history,
                           [history |-> "CANCELLED",
                            timestamp |-> cmd'.timestamp,
                            price |-> get_price(o, NOW),
                            quantity_remaining |-> get_quantity(o, NOW)])
              /\ \A t \in o.history[1].timestamp..(cmd'.timestamp - 1) :
                    active_at(o2, t) ]_vars

(* C32: an Amend that is applied to an order appends exactly one record to *)
(* its history, with the status and the timestamp of the record before it  *)
(* and the price and quantity of the command; the history of no other      *)
(* order changes.                                                          *)
C32_AmendAppendsOneRecord ==
    [][ (Takes("AMEND") /\ ammend_applies(OB, cmd')) =>
          LET h  == HeapOf(table, cmd')
              o  == Data(h, search(h, cmd'.order_id))
              o2 == OrderOf(HeapOf(table', cmd'), cmd'.order_id)
          IN  /\ o2.history =
                    Append(o.history,
                           [history |-> get_status(o, NOW),
                            timestamp |-> get_timestamp(o, NOW),
                            price |-> cmd'.price,
                            quantity_remaining |-> cmd'.quantity])
              /\ StoredOrders(table') \ {o2} = StoredOrders(table) \ {o} ]_vars

(* the order with the id took a fill at time t in the step from heap h to  *)
(* heap h2: one record is appended, of time t and of the price the order   *)
(* had, Executed when the quantity it leaves is 0 and PartiallyExecuted    *)
(* otherwise, and an Executed order is in no slot of the active region     *)
FillRecorded(h, h2, id, t) ==
    LET o  == Data(h, search(h, id))
        o2 == OrderOf(h2, id)
        r  == Last(o2.history)
    IN  /\ o2.history = Append(o.history, r)
        /\ r.timestamp = t
        /\ r.price = get_price(o, NOW)
        /\ r.history = IF r.quantity_remaining = 0
                       THEN "EXECUTED" ELSE "PARTIALLY_EXECUTED"
        /\ r.history = "EXECUTED" =>
              \A i \in 0..(h2.active_ptr - 1) : Data(h2, i).order_id # id

(* C33: every fill appends to the order a record of the time of the Match  *)
(* and of the order's current price, whose status is Executed exactly when *)
(* the remaining quantity is 0 and PartiallyExecuted otherwise; an order   *)
(* that becomes Executed leaves the active region in the same operation.   *)
C33_FillRecordsStatusByRemainder ==
    [][ Trades =>
          LET e  == table[Head(todo)]
              e2 == table'[Head(todo)]
          IN  /\ FillRecorded(e.buys, e2.buys, Last(out').b_oi, cmd.timestamp)
              /\ FillRecorded(e.sells, e2.sells, Last(out').s_oi,
                              cmd.timestamp) ]_vars

(* a Match at a time after 0 has filled one order in part and one in full *)
C33_Witness ==
    /\ pc = "match" /\ out # <<>> /\ cmd.timestamp > 0
    /\ \E o \in StoredOrders(table) :
          /\ Last(o.history).history = "PARTIALLY_EXECUTED"
          /\ Last(o.history).timestamp = cmd.timestamp
          /\ Last(o.history).quantity_remaining > 0
    /\ \E o \in StoredOrders(table) :
          /\ Last(o.history).history = "EXECUTED"
          /\ Last(o.history).timestamp = cmd.timestamp

(* the heaps of a table *)
Heaps(tbl) ==
    {tbl[b].buys : b \in DOMAIN tbl} \cup {tbl[b].sells : b \in DOMAIN tbl}

(* the slots of the retained region of a heap that hold the order id *)
SlotsOf(h, id) == {i \in 0..(h.matched_ptr - 1) : Data(h, i).order_id = id}

(* C34: every order ever inserted is in exactly one slot of the retained   *)
(* region data[0..matched_ptr) of one heap, and every slot of a retained   *)
(* region holds an inserted order: no insert moves an order out of the     *)
(* retained region.                                                        *)
C34_RetainedRegionHoldsEveryOrder ==
    /\ \A id \in Admitted :
          \E h \in Heaps(table) :
              /\ Cardinality(SlotsOf(h, id)) = 1
              /\ \A g \in Heaps(table) \ {h} : SlotsOf(g, id) = {}
    /\ \A h \in Heaps(table) :
          \A i \in 0..(h.matched_ptr - 1) : Data(h, i).order_id \in Admitted

(* C35: as long as no access has left the arrays, the active region       *)
(* data[0..active_ptr) of every heap holds only orders whose current       *)
(* status is NotExecuted or PartiallyExecuted, and the rest of the         *)
(* retained region, data[active_ptr..matched_ptr), only Executed or        *)
(* Cancelled ones.                                                         *)
C35_ActiveRegionHoldsTheActiveOrders ==
    ~OutOfBounds(table) =>
        \A h \in Heaps(table) :
            /\ \A i \in 0..(h.active_ptr - 1) : active_at(Data(h, i), NOW)
            /\ \A i \in h.active_ptr..(h.matched_ptr - 1) :
                  ~active_at(Data(h, i), NOW)

(* C38: every trade names a buy and a sell order that New commands were    *)
(* admitted with under the symbol the trade is printed for, and a pass of  *)
(* the match loop over a book one of whose sides has no active order       *)
(* prints no trade and changes no order.                                   *)
C38_TradeNamesAdmittedOrders ==
    [][ /\ Trades =>
            LET ev == Last(out')
            IN  \A id \in {ev.b_oi, ev.s_oi} :
                    id \in Admitted /\ SymbolOf(id) = ev.symbol
        /\ (/\ pc = "match"
            /\ todo # <<>>
            /\ Head(todo) \in DOMAIN table
            /\ \/ ActiveOrders(table[Head(todo)].buys) = {}
               \/ ActiveOrders(table[Head(todo)].sells) = {})
           => out' = out /\ table' = table ]_vars

(* C39: a Query command of any form and with any timestamp, also one       *)
(* smaller than the timestamp of the book, that runs to its end leaves the *)
(* side books with their cursors and histories, the symbol names, the      *)
(* order-to-symbol map and the timestamp of the book as they were.         *)
C39_QueryChangesNothing ==
    [][ (Takes("QUERY") /\ ~fault') => UNCHANGED Engine ]_vars

(* a query for a time before the timestamp of the book has printed rows *)
C39_Witness ==
    /\ cmd.order_action = "QUERY"
    /\ cmd.format \in {"F_QUERY_TIMESTAMP", "F_QUERY_SYMBOL_TIMESTAMP",
                       "F_QUERY_TIMESTAMP_SYMBOL"}
    /\ cmd.timestamp < timestamp
    /\ ~Halted
    /\ out # <<>>

(* an order, or a command, without its type tag *)
Untyped(o) == [o EXCEPT !.order_type = "MARKET"]

UntypedHeap(h) ==
    [h EXCEPT !.data = [i \in DOMAIN h.data |-> Untyped(h.data[i])],
              !.rest = Untyped(h.rest)]

UntypedEntry(e) ==
    [e EXCEPT !.buys = UntypedHeap(e.buys), !.sells = UntypedHeap(e.sells)]

UntypedBook(ob) ==
    [ob EXCEPT !.table = [b \in DOMAIN ob.table |->
                             UntypedEntry(ob.table[b])]]

(* the printed lines without the type tags of the orders they show *)
UntypedLines(ls) ==
    [k \in 1..Len(ls) |->
        IF ls[k].kind = "Trade"
        THEN [ls[k] EXCEPT !.b_t = "MARKET", !.s_t = "MARKET"]
        ELSE IF ls[k].kind = "Row"
        THEN [ls[k] EXCEPT
                !.buy  = [i \in 1..Len(ls[k].buy) |-> Untyped(ls[k].buy[i])],
                !.sell = [i \in 1..Len(ls[k].sell) |->
                             Untyped(ls[k].sell[i])]]
        ELSE ls[k]]

(* the book after the step *)
NextOB ==
    [table |-> table', timestamp |-> timestamp',
     cache_order_to_symbol |-> cache_order_to_symbol',
     cache_list_sorted_symbol_names |-> cache_list_sorted_symbol_names']

(* C37: the order types do not influence what the engine does.  Every step *)
(* of a run is matched by the step the engine takes when the same command  *)
(* without its type tag meets the same book without its type tags: the two *)
(* steps answer with the same accept or reject, print the same trades and  *)
(* rows and leave the same books, type tags apart.                         *)
C37_OrderTypesDoNotInfluenceMatching ==
    [][ LET ob == UntypedBook(OB)
            c  == Untyped(cmd')
        IN  /\ Takes("NEW") =>
                  LET r == add_new_order(ob, c)
                  IN  /\ UntypedBook(r.ob) = UntypedBook(NextOB)
                      /\ out' # <<>> => out' = interpret_status(c, r.status)
            /\ Takes("AMEND") =>
                  LET r == ammend_order(ob, c)
                  IN  /\ UntypedBook(r.ob) = UntypedBook(NextOB)
                      /\ out' = interpret_status(c, r.status)
            /\ Takes("CANCEL") =>
                  LET r == cancel_order(ob, c)
                  IN  /\ r.null = fault'
                      /\ ~r.null =>
                            /\ UntypedBook(r.ob) = UntypedBook(NextOB)
                            /\ out' = interpret_status(c, r.status)
            /\ Takes("MATCH") =>
                  /\ UNCHANGED Engine
                  /\ pc' = "match" <=>
                        /\ ~too_old(ob, c)
                        /\ \A i \in 1..Len(match_entries(ob, c)) :
                              match_entries(ob, c)[i] # -1
                  /\ pc' = "match" => todo' = match_entries(ob, c)
            /\ Takes("QUERY") =>
                  LET r == book_query(ob, query_entries(ob, c), query_time(c))
                  IN  /\ UNCHANGED Engine
                      /\ UntypedLines(r.rows) = UntypedLines(out')
                      /\ r.stopped = fault'
            /\ (pc = "match" /\ ~Halted /\ todo # <<>>) =>
                  LET r == entry_match_pass(ob.table[Head(todo)],
                                            cmd.timestamp)
                  IN  /\ UntypedEntry(r.e)
                            = UntypedEntry(table'[Head(todo)])
                      /\ UntypedLines(r.trade)
                            = UntypedLines(SubSeq(out', Len(out) + 1,
                                                  Len(out')))
                      /\ r.done <=> todo' = Tail(todo) ]_vars

(* a trade between two orders of different types has been printed *)
C37_Witness ==
    /\ ~Halted
    /\ \E k \in 1..Len(out) :
          out[k].kind = "Trade" /\ out[k].b_t # out[k].s_t

(* x < y for two quantities, compared from the most significant digit *)
quantity_less(x, y) ==
    \E k \in 1..4 :
        /\ x[k] < y[k]
        /\ \A j \in (k + 1)..4 : x[j] = y[j]

(* C40: a fill of amount a on an order with q remaining, for q and a over  *)
(* the whole width of quantity_t, marks the order Executed with 0          *)
(* remaining and takes it out of the active region exactly when a >= q,    *)
(* and otherwise leaves it active and PartiallyExecuted with q - a         *)
(* remaining.                                                              *)
C40_FillExecutesExactlyWhenAmountCoversQuantity ==
    [][ wide' # wide =>
        LET q == wide.quantity_remaining
            a == wide'.amount
        IN  IF quantity_less(a, q)
            THEN /\ wide'.history = "PARTIALLY_EXECUTED"
                 /\ wide'.quantity_remaining = quantity_sub(q, a)
                 /\ wide'.active
            ELSE /\ wide'.history = "EXECUTED"
                 /\ wide'.quantity_remaining = Quantity(0, 0, 0, 0)
                 /\ ~wide'.active ]_vars

(* C36: an insert into a heap whose storage is used up, matched_ptr        *)
(* standing at the end of data[], is refused: no slot is written, inside   *)
(* or outside the array, and the cursors and the stored orders stay as     *)
(* they were.                                                              *)
C36_InsertIntoFullHeapIsRefused ==
    [][ side.matched_ptr = MAX_NUM_ORDERS_IN_HEAP => side' = side ]_vars

====
